---- MODULE Spec2Model ----
(***************************************************************************)
(* ChatterBox desktop front end: the background workers of                 *)
(* src/chatterbox_bulk_pyqt6.py (BulkTTSWorker, BulkVCWorker) and of       *)
(* src/main.py (TTSWorker, VCWorker), and the control layer that launches  *)
(* them.  Strings are sequences of one-character strings, so that path and *)
(* file-name construction is computed the way the code computes it.        *)
(***************************************************************************)
EXTENDS Integers, Sequences, FiniteSets, TLC

VARIABLES
    workers,    \* batch worker instances (BulkTTSWorker / BulkVCWorker), in creation order
    singles,    \* single-item worker instances of main.py (TTSWorker / VCWorker)
    gui,        \* state of the bulk control layer (BulkChatterBoxGUI)
    stopped_at  \* history: per batch worker, where its thread was when stop() first came

vars == <<workers, singles, gui, stopped_at>>

(***************************************************************************)
(* Bounds of the model.                                                    *)
(***************************************************************************)
\* longest work list handed to a batch worker
MaxItems == 3
\* number of batch workers the control layer may create in one run of the model
MaxWorkers == 2
\* number of input streams opened in one run of the model
MaxStreams == 3
\* number of blocks of samples the callbacks enqueue in one run of the model
MaxFrames == 3
\* number of input controls changed while workers run, in one run of the model
MaxEdits == 2
\* number of texts of the long synthesis batch
LongBatch == 1001
\* number of paths in one group of files added or dropped
MaxGroup == 2

(***************************************************************************)
(* Strings.                                                                *)
(***************************************************************************)
Sep == "/"
Dot == "."

\* ".wav"
DotWav == <<".", "w", "a", "v">>
\* "_converted.wav"
ConvertedSuffix == <<"_", "c", "o", "n", "v", "e", "r", "t", "e", "d">> \o DotWav

\* s[:n]
Take(s, n) == SubSeq(s, 1, IF n < Len(s) THEN n ELSE Len(s))
\* s[n:] with n 0-based
Drop(s, n) == SubSeq(s, n + 1, Len(s))

\* s.rfind(c), 0-based, -1 when absent
RFind(s, c) ==
    LET hits == {i \in 1..Len(s) : s[i] = c}
    IN  IF hits = {} THEN -1
        ELSE (CHOOSE i \in hits : \A j \in hits : j <= i) - 1

\* s.rstrip(c)
RECURSIVE RStrip(_, _)
RStrip(s, c) ==
    IF s # <<>> /\ s[Len(s)] = c THEN RStrip(SubSeq(s, 1, Len(s) - 1), c) ELSE s

DigitChar(d) == <<"0", "1", "2", "3", "4", "5", "6", "7", "8", "9">>[d + 1]

\* str(n) for n >= 0
RECURSIVE Digits(_)
Digits(n) == IF n < 10 THEN <<DigitChar(n)>> ELSE Digits(n \div 10) \o <<DigitChar(n % 10)>>

\* s.rjust(w, c)
RECURSIVE PadLeft(_, _, _)
PadLeft(s, w, c) == IF Len(s) >= w THEN s ELSE PadLeft(<<c>> \o s, w, c)

\* exactly three digits: the last three of n
Format03dFixed(n) == PadLeft(Digits(n % 1000), 3, "0")

\* f"{n:03d}" for n >= 0: decimal, zero-padded to a minimum width of three
Format03d(n) == PadLeft(Digits(n), 3, "0")

\* os.path.join(a, b) on POSIX: an absolute b discards a; otherwise b is
\* appended, with a separator unless a is empty or already ends with one
PathJoin(a, b) ==
    IF b # <<>> /\ b[1] = Sep THEN b
    ELSE IF a = <<>> \/ a[Len(a)] = Sep THEN a \o b
    ELSE a \o <<Sep>> \o b

\* pathlib.PurePosixPath(p).name: the final component, trailing separators ignored
PathName(p) ==
    LET q == RStrip(p, Sep)
    IN  Drop(q, RFind(q, Sep) + 1)

\* pathlib.PurePosixPath(p).stem: the name without its last suffix; a leading
\* or a trailing dot starts no suffix
PathStem(p) ==
    LET name == PathName(p)
        i == RFind(name, Dot)
    IN  IF 0 < i /\ i < Len(name) - 1 THEN Take(name, i) ELSE name

(***************************************************************************)
(* Values.                                                                 *)
(***************************************************************************)
\* Python's None, distinct from every string of the model
None == <<"None">>

\* no stop() so far
NotStopped == [pc |-> "none", idx |-> -1]

\* str(e) of the exception raised by the seeding calls, the model call, the save
SeedError == <<"seed error">>
ModelError == <<"model error">>
SaveError == <<"save error">>

\* the waveform the model call returns for a work item
Wav(item) == <<"wav", item>>

(***************************************************************************)
(* Batch workers: BulkTTSWorker and BulkVCWorker.                          *)
(* A worker is a record; pc is the position of its thread in run().        *)
(***************************************************************************)
\* BulkTTSWorker.__init__ followed by QThread.start(): run() is about to be entered
BulkTTSWorker(model, texts, output_dir, base_filename, params) ==
    [kind |-> "tts", model |-> model, items |-> texts, output_dir |-> output_dir,
     base_filename |-> base_filename, params |-> params, target_voice_path |-> None,
     is_running |-> TRUE, pc |-> "loop", idx |-> 0, wav |-> None, err |-> None,
     output_path |-> None, events |-> <<>>, calls |-> <<>>]

\* BulkVCWorker.__init__ followed by QThread.start()
BulkVCWorker(model, input_files, output_dir, target_voice_path) ==
    [kind |-> "vc", model |-> model, items |-> input_files, output_dir |-> output_dir,
     base_filename |-> None, params |-> None, target_voice_path |-> target_voice_path,
     is_running |-> TRUE, pc |-> "loop", idx |-> 0, wav |-> None, err |-> None,
     output_path |-> None, events |-> <<>>, calls |-> <<>>]

\* the signals of a batch worker
ProgressEvent(w, message) ==
    [type |-> "progress", idx |-> w.idx, current |-> w.idx + 1, total |-> Len(w.items),
     item |-> message, payload |-> None]
CompletedEvent(w) ==
    [type |-> "file_completed", idx |-> w.idx, current |-> w.idx + 1, total |-> Len(w.items),
     item |-> w.items[w.idx + 1], payload |-> w.output_path]
ErrorEvent(w) ==
    [type |-> "error", idx |-> w.idx, current |-> w.idx + 1, total |-> Len(w.items),
     item |-> w.items[w.idx + 1], payload |-> w.err]
FinishedEvent(w) ==
    [type |-> "finished", idx |-> -1, current |-> 0, total |-> Len(w.items),
     item |-> None, payload |-> None]

\* the calls a worker makes on its collaborators (torch / numpy seeding, the model, ta.save)
\* raised: whether the call ended in an exception
Call(op, idx, arg, raised) == [op |-> op, idx |-> idx, arg |-> arg, raised |-> raised]

\* the text of the progress signal: the first 50 characters of the text, or the file's name
ProgressMessage(w) ==
    IF w.kind = "tts" THEN Take(w.items[w.idx + 1], 50) ELSE PathName(w.items[w.idx + 1])

\* mutant: every item seeded with the template seed itself
ItemSeedSame(w) == w.params.seed

\* the seed of item idx of a synthesis batch
ItemSeed(w) == w.params.seed + w.idx

\* whether the seeding branch of BulkTTSWorker.run is taken
SeedSpecified(w) == w.params.seed # 0

\* the file name of the current item
TTSFileName(w) ==
    IF Len(w.items) = 1 THEN w.base_filename \o DotWav
    ELSE w.base_filename \o <<"_">> \o Format03d(w.idx + 1) \o DotWav

\* mutant: conversion outputs numbered by position, as the synthesis outputs are
VCFileNameNumbered(w) ==
    PathStem(w.items[w.idx + 1]) \o <<"_">> \o Format03d(w.idx + 1) \o ConvertedSuffix

VCFileName(w) == PathStem(w.items[w.idx + 1]) \o ConvertedSuffix

OutputPath(w) ==
    PathJoin(w.output_dir, IF w.kind = "tts" THEN TTSFileName(w) ELSE VCFileName(w))

\* one worker field changed
SetWorker(i, w) == workers' = [workers EXCEPT ![i] = w]

\* mutant: the loop never looks at the stop flag
StopIgnored(w) == FALSE

\* top of the for loop: the next item is taken unless the list is exhausted or
\* the stop flag is down
StopRequested(w) == ~w.is_running

\* mutant: a stop request returns from run() instead of leaving the loop
LoopCheckReturns(i) ==
    LET w == workers[i] IN
    /\ w.pc = "loop"
    /\ IF ~w.is_running THEN SetWorker(i, [w EXCEPT !.pc = "done"])
       ELSE IF w.idx >= Len(w.items) THEN SetWorker(i, [w EXCEPT !.pc = "finish"])
       ELSE SetWorker(i, [w EXCEPT !.pc = "progress"])
    /\ UNCHANGED <<singles, gui, stopped_at>>

LoopCheck(i) ==
    LET w == workers[i] IN
    /\ w.pc = "loop"
    /\ IF w.idx >= Len(w.items) \/ StopRequested(w)
       THEN SetWorker(i, [w EXCEPT !.pc = "finish"])
       ELSE SetWorker(i, [w EXCEPT !.pc = "progress"])
    /\ UNCHANGED <<singles, gui, stopped_at>>

EmitProgress(i) ==
    LET w == workers[i] IN
    /\ w.pc = "progress"
    /\ SetWorker(i, [w EXCEPT !.events = Append(@, ProgressEvent(w, ProgressMessage(w))),
                              !.pc = IF w.kind = "tts" THEN "seed" ELSE "generate"])
    /\ UNCHANGED <<singles, gui, stopped_at>>

\* if self.params['seed'] != 0: self.set_seed(self.params['seed'] + idx)
SeedSkip(i) ==
    LET w == workers[i] IN
    /\ w.pc = "seed"
    /\ ~SeedSpecified(w)
    /\ SetWorker(i, [w EXCEPT !.pc = "generate"])
    /\ UNCHANGED <<singles, gui, stopped_at>>

SeedCall(i) ==
    LET w == workers[i] IN
    /\ w.pc = "seed"
    /\ SeedSpecified(w)
    /\ SetWorker(i, [w EXCEPT !.calls = Append(@, Call("set_seed", w.idx, ItemSeed(w), FALSE)),
                              !.pc = "generate"])
    /\ UNCHANGED <<singles, gui, stopped_at>>

SeedRaise(i) ==
    LET w == workers[i] IN
    /\ w.pc = "seed"
    /\ SeedSpecified(w)
    /\ SetWorker(i, [w EXCEPT !.calls = Append(@, Call("set_seed", w.idx, ItemSeed(w), TRUE)),
                              !.err = SeedError, !.pc = "except"])
    /\ UNCHANGED <<singles, gui, stopped_at>>

\* mutant: a stop request cuts the model call short and ends the run
GenerateInterruptible(i) ==
    LET w == workers[i] IN
    /\ w.pc = "generate"
    /\ IF ~w.is_running
       THEN SetWorker(i, [w EXCEPT !.pc = "finish"])
       ELSE SetWorker(i, [w EXCEPT !.calls = Append(@, Call("generate", w.idx, w.items[w.idx + 1], FALSE)),
                                   !.wav = Wav(w.items[w.idx + 1]), !.pc = "save"])
    /\ UNCHANGED <<singles, gui, stopped_at>>

\* wav = self.model.generate(...): returns a waveform
GenerateReturn(i) ==
    LET w == workers[i] IN
    /\ w.pc = "generate"
    /\ SetWorker(i, [w EXCEPT !.calls = Append(@, Call("generate", w.idx, w.items[w.idx + 1], FALSE)),
                              !.wav = Wav(w.items[w.idx + 1]), !.pc = "save"])
    /\ UNCHANGED <<singles, gui, stopped_at>>

\* ... or raises
GenerateRaise(i) ==
    LET w == workers[i] IN
    /\ w.pc = "generate"
    /\ SetWorker(i, [w EXCEPT !.calls = Append(@, Call("generate", w.idx, w.items[w.idx + 1], TRUE)),
                              !.err = ModelError, !.pc = "except"])
    /\ UNCHANGED <<singles, gui, stopped_at>>

\* the file name is computed and ta.save(output_path, wav, sr) returns
SaveReturn(i) ==
    LET w == workers[i] IN
    /\ w.pc = "save"
    /\ SetWorker(i, [w EXCEPT !.calls = Append(@, Call("save", w.idx, OutputPath(w), FALSE)),
                              !.output_path = OutputPath(w), !.pc = "completed"])
    /\ UNCHANGED <<singles, gui, stopped_at>>

\* ... or raises
SaveRaise(i) ==
    LET w == workers[i] IN
    /\ w.pc = "save"
    /\ SetWorker(i, [w EXCEPT !.calls = Append(@, Call("save", w.idx, OutputPath(w), TRUE)),
                              !.output_path = OutputPath(w), !.err = SaveError,
                              !.pc = "except"])
    /\ UNCHANGED <<singles, gui, stopped_at>>

\* where run() goes after the terminal signal of an item
AfterItem(w) == [w EXCEPT !.idx = w.idx + 1, !.pc = "loop", !.wav = None, !.err = None,
                          !.output_path = None]

\* mutant: the per-item success is signalled with finished, as the single-item workers do
EmitCompletedAsFinished(i) ==
    LET w == workers[i] IN
    /\ w.pc = "completed"
    /\ SetWorker(i, [AfterItem(w) EXCEPT !.events = Append(@, FinishedEvent(w))])
    /\ UNCHANGED <<singles, gui, stopped_at>>

\* self.file_completed.emit(item, output_path)
EmitCompleted(i) ==
    LET w == workers[i] IN
    /\ w.pc = "completed"
    /\ SetWorker(i, [AfterItem(w) EXCEPT !.events = Append(@, CompletedEvent(w))])
    /\ UNCHANGED <<singles, gui, stopped_at>>

\* mutant: the handler is outside the loop, so that an exception ends the batch
EmitErrorAborts(i) ==
    LET w == workers[i] IN
    /\ w.pc = "except"
    /\ SetWorker(i, [AfterItem(w) EXCEPT !.events = Append(@, ErrorEvent(w)), !.pc = "finish"])
    /\ UNCHANGED <<singles, gui, stopped_at>>

\* except Exception as e: self.error.emit(item, str(e))
EmitError(i) ==
    LET w == workers[i] IN
    /\ w.pc = "except"
    /\ SetWorker(i, [AfterItem(w) EXCEPT !.events = Append(@, ErrorEvent(w))])
    /\ UNCHANGED <<singles, gui, stopped_at>>

\* after the loop: self.finished.emit()
EmitFinished(i) ==
    LET w == workers[i] IN
    /\ w.pc = "finish"
    /\ SetWorker(i, [w EXCEPT !.events = Append(@, FinishedEvent(w)), !.pc = "done"])
    /\ UNCHANGED <<singles, gui, stopped_at>>

\* one step of the thread of worker i
WorkerStep(i) ==
    \/ LoopCheck(i)
    \/ EmitProgress(i)
    \/ SeedSkip(i)
    \/ SeedCall(i)
    \/ SeedRaise(i)
    \/ GenerateReturn(i)
    \/ GenerateRaise(i)
    \/ SaveReturn(i)
    \/ SaveRaise(i)
    \/ EmitCompleted(i)
    \/ EmitError(i)
    \/ EmitFinished(i)

\* stop(), called on the control thread at any moment of the worker's life
StopFlag(w) == [w EXCEPT !.is_running = FALSE]

Stop(i) ==
    /\ workers[i].is_running
    /\ SetWorker(i, StopFlag(workers[i]))
    /\ stopped_at' = [stopped_at EXCEPT ![i] = [pc |-> workers[i].pc, idx |-> workers[i].idx]]
    /\ UNCHANGED <<singles, gui>>

(***************************************************************************)
(* A batch worker on its own: constructed with any inputs and started,     *)
(* with stop() arriving at any moment.                                     *)
(***************************************************************************)
Texts == {<<"H", "i">>, <<"Y", "o">>}
OutDir == <<"/", "o">>
RootDir == <<"/">>
OutputDirs == {OutDir, RootDir}
BaseOut == <<"o", "u", "t">>
\* the base file name is whatever the user typed: it may hold separators
BaseNames == {BaseOut, <<"/", "t">>, <<"d", "/", "f">>}
\* the output directory and base file name of a synthesis batch
Destinations == {<<d, BaseOut>> : d \in OutputDirs} \cup {<<OutDir, f>> : f \in BaseNames}
Seeds == {0, 7}
InputFiles == {<<"/", "d", "/", "a", ".", "w", "a", "v">>,
               <<"/", "e", "/", "a", ".", "w", "a", "v">>,
               <<"/", "d", "/", "a", ".", "b", ".", "m", "p", "3">>}

\* CompactParamWidget.get_params() with the sliders at their initial positions,
\* in hundredths, plus the ref_audio entry generate_bulk_tts adds
Params(seed, ref) ==
    [exaggeration |-> 50, cfg_weight |-> 50, temperature |-> 80, seed |-> seed,
     ref_audio |-> ref]

\* the lists of at most n elements of S
ListsUpTo(S, n) == UNION {[1..k -> S] : k \in 0..n}
\* ... without repetition, as the file list of the conversion tab holds them
IsInjective(s) == \A a, b \in 1..Len(s) : s[a] = s[b] => a = b

NoGui == [absent |-> TRUE]

InitBatch ==
    /\ \/ \E texts \in ListsUpTo(Texts, MaxItems), df \in Destinations, s \in Seeds :
            workers = <<BulkTTSWorker("tts_model", texts, df[1], df[2], Params(s, None))>>
       \/ \E files \in {l \in ListsUpTo(InputFiles, MaxItems) : IsInjective(l)},
            d \in OutputDirs :
            workers = <<BulkVCWorker("vc_model", files, d, None)>>
    /\ singles = <<>>
    /\ gui = NoGui
    /\ stopped_at = <<NotStopped>>

\* the one worker of this specification
TheWorker == 1

NextBatch ==
    \/ LoopCheck(TheWorker)
    \/ EmitProgress(TheWorker)
    \/ SeedSkip(TheWorker)
    \/ SeedCall(TheWorker)
    \/ SeedRaise(TheWorker)
    \/ GenerateReturn(TheWorker)
    \/ GenerateRaise(TheWorker)
    \/ SaveReturn(TheWorker)
    \/ SaveRaise(TheWorker)
    \/ EmitCompleted(TheWorker)
    \/ EmitError(TheWorker)
    \/ EmitFinished(TheWorker)
    \/ Stop(TheWorker)

SpecBatch == InitBatch /\ [][NextBatch]_vars

\* The same worker under a fair scheduler: its thread is scheduled as long as it
\* has a step to take.  File names play no part in how run() proceeds, so one
\* destination is kept.
InitBatchFair ==
    /\ \/ \E texts \in ListsUpTo(Texts, MaxItems), s \in Seeds :
            workers = <<BulkTTSWorker("tts_model", texts, OutDir, BaseOut, Params(s, None))>>
       \/ \E files \in {l \in ListsUpTo(InputFiles, MaxItems) : IsInjective(l)} :
            workers = <<BulkVCWorker("vc_model", files, OutDir, None)>>
    /\ singles = <<>>
    /\ gui = NoGui
    /\ stopped_at = <<NotStopped>>

SpecBatchFair == InitBatchFair /\ [][NextBatch]_vars /\ WF_vars(WorkerStep(TheWorker))

(***************************************************************************)
(* A long synthesis batch in which every call returns and no stop comes:   *)
(* the run that reaches every index of the batch.                          *)
(***************************************************************************)
SameTexts(n) == [k \in 1..n |-> <<"t">>]

InitLongBatch ==
    /\ \E n \in {2, LongBatch}, s \in Seeds :
          workers = <<BulkTTSWorker("tts_model", SameTexts(n), OutDir, BaseOut, Params(s, None))>>
    /\ singles = <<>>
    /\ gui = NoGui
    /\ stopped_at = <<NotStopped>>

NextLongBatch ==
    \/ LoopCheck(TheWorker)
    \/ EmitProgress(TheWorker)
    \/ SeedSkip(TheWorker)
    \/ SeedCall(TheWorker)
    \/ GenerateReturn(TheWorker)
    \/ SaveReturn(TheWorker)
    \/ EmitCompleted(TheWorker)
    \/ EmitFinished(TheWorker)

SpecLongBatch == InitLongBatch /\ [][NextLongBatch]_vars

(***************************************************************************)
(* Single-item workers of main.py: TTSWorker and VCWorker.                 *)
(***************************************************************************)
\* "temp_tts_output.wav" and "temp_vc_output.wav", relative to the working directory
TempTTSOutput == <<"t", "e", "m", "p", "_", "t", "t", "s", "_", "o", "u", "t", "p", "u", "t">> \o DotWav
TempVCOutput == <<"t", "e", "m", "p", "_", "v", "c", "_", "o", "u", "t", "p", "u", "t">> \o DotWav

\* the stage texts of the progress signal
MsgSettingSeed == <<"Setting random seed...">>
MsgGenerating == <<"Generating audio...">>
MsgConverting == <<"Processing voice conversion...">>

\* TTSWorker.__init__ followed by QThread.start()
TTSWorker(model, text, audio_prompt_path, exaggeration, temperature, seed, cfg_weight) ==
    [kind |-> "tts", model |-> model, text |-> text, audio_prompt_path |-> audio_prompt_path,
     exaggeration |-> exaggeration, temperature |-> temperature, seed |-> seed,
     cfg_weight |-> cfg_weight, audio_path |-> None, target_voice_path |-> None,
     pc |-> "progress_seed", err |-> None, output_path |-> None,
     events |-> <<>>, calls |-> <<>>]

\* VCWorker.__init__ followed by QThread.start()
VCWorker(model, audio_path, target_voice_path) ==
    [kind |-> "vc", model |-> model, text |-> None, audio_prompt_path |-> None,
     exaggeration |-> 0, temperature |-> 0, seed |-> 0,
     cfg_weight |-> 0, audio_path |-> audio_path, target_voice_path |-> target_voice_path,
     pc |-> "progress_generate", err |-> None, output_path |-> None,
     events |-> <<>>, calls |-> <<>>]

SingleEvent(type, payload) == [type |-> type, payload |-> payload]

\* x if x else None: an empty path counts as none
OrNone(x) == IF x = None \/ x = <<>> THEN None ELSE x

SetSingle(i, w) == singles' = [singles EXCEPT ![i] = w]

\* self.progress.emit("Setting random seed...")
SingleProgressSeed(i) ==
    LET w == singles[i] IN
    /\ w.pc = "progress_seed"
    /\ SetSingle(i, [w EXCEPT !.events = Append(@, SingleEvent("progress", MsgSettingSeed)),
                              !.pc = "seed"])
    /\ UNCHANGED <<workers, gui, stopped_at>>

\* if self.seed != 0: self.set_seed(int(self.seed))
SingleSeedSkip(i) ==
    LET w == singles[i] IN
    /\ w.pc = "seed"
    /\ w.seed = 0
    /\ SetSingle(i, [w EXCEPT !.pc = "progress_generate"])
    /\ UNCHANGED <<workers, gui, stopped_at>>

SingleSeedCall(i) ==
    LET w == singles[i] IN
    /\ w.pc = "seed"
    /\ w.seed # 0
    /\ SetSingle(i, [w EXCEPT !.calls = Append(@, Call("set_seed", 0, w.seed, FALSE)),
                              !.pc = "progress_generate"])
    /\ UNCHANGED <<workers, gui, stopped_at>>

SingleSeedRaise(i) ==
    LET w == singles[i] IN
    /\ w.pc = "seed"
    /\ w.seed # 0
    /\ SetSingle(i, [w EXCEPT !.calls = Append(@, Call("set_seed", 0, w.seed, TRUE)),
                              !.err = SeedError, !.pc = "except"])
    /\ UNCHANGED <<workers, gui, stopped_at>>

\* self.progress.emit("Generating audio...") / ("Processing voice conversion...")
SingleProgressGenerate(i) ==
    LET w == singles[i] IN
    /\ w.pc = "progress_generate"
    /\ SetSingle(i, [w EXCEPT !.events = Append(@, SingleEvent("progress",
                                  IF w.kind = "tts" THEN MsgGenerating ELSE MsgConverting)),
                              !.pc = "generate"])
    /\ UNCHANGED <<workers, gui, stopped_at>>

\* the arguments of self.model.generate(...)
SingleGenerateArgs(w) ==
    IF w.kind = "tts" THEN <<w.text, OrNone(w.audio_prompt_path)>>
    ELSE <<w.audio_path, OrNone(w.target_voice_path)>>

SingleGenerateReturn(i) ==
    LET w == singles[i] IN
    /\ w.pc = "generate"
    /\ SetSingle(i, [w EXCEPT !.calls = Append(@, Call("generate", 0, SingleGenerateArgs(w), FALSE)),
                              !.pc = "save"])
    /\ UNCHANGED <<workers, gui, stopped_at>>

SingleGenerateRaise(i) ==
    LET w == singles[i] IN
    /\ w.pc = "generate"
    /\ SetSingle(i, [w EXCEPT !.calls = Append(@, Call("generate", 0, SingleGenerateArgs(w), TRUE)),
                              !.err = ModelError, !.pc = "except"])
    /\ UNCHANGED <<workers, gui, stopped_at>>

SingleOutputPath(w) == IF w.kind = "tts" THEN TempTTSOutput ELSE TempVCOutput

\* the waveform is not persisted: finished is emitted right after the model call
SingleSaveSkipped(i) ==
    LET w == singles[i] IN
    /\ w.pc = "save"
    /\ SetSingle(i, [w EXCEPT !.output_path = SingleOutputPath(w), !.pc = "finished"])
    /\ UNCHANGED <<workers, gui, stopped_at>>

\* ta.save(output_path, wav, self.model.sr)
SingleSaveReturn(i) ==
    LET w == singles[i] IN
    /\ w.pc = "save"
    /\ SetSingle(i, [w EXCEPT !.calls = Append(@, Call("save", 0, SingleOutputPath(w), FALSE)),
                              !.output_path = SingleOutputPath(w), !.pc = "finished"])
    /\ UNCHANGED <<workers, gui, stopped_at>>

\* mutant: the save is made outside the try block, so that its exception leaves run()
SingleSaveRaiseUncaught(i) ==
    LET w == singles[i] IN
    /\ w.pc = "save"
    /\ SetSingle(i, [w EXCEPT !.calls = Append(@, Call("save", 0, SingleOutputPath(w), TRUE)),
                              !.err = SaveError, !.pc = "done"])
    /\ UNCHANGED <<workers, gui, stopped_at>>

SingleSaveRaise(i) ==
    LET w == singles[i] IN
    /\ w.pc = "save"
    /\ SetSingle(i, [w EXCEPT !.calls = Append(@, Call("save", 0, SingleOutputPath(w), TRUE)),
                              !.err = SaveError, !.pc = "except"])
    /\ UNCHANGED <<workers, gui, stopped_at>>

\* self.finished.emit(output_path)
SingleEmitFinished(i) ==
    LET w == singles[i] IN
    /\ w.pc = "finished"
    /\ SetSingle(i, [w EXCEPT !.events = Append(@, SingleEvent("finished", w.output_path)),
                              !.pc = "done"])
    /\ UNCHANGED <<workers, gui, stopped_at>>

\* except Exception as e: self.error.emit(str(e))
SingleEmitError(i) ==
    LET w == singles[i] IN
    /\ w.pc = "except"
    /\ SetSingle(i, [w EXCEPT !.events = Append(@, SingleEvent("error", w.err)),
                              !.pc = "done"])
    /\ UNCHANGED <<workers, gui, stopped_at>>

(***************************************************************************)
(* A single-item worker on its own, constructed with any inputs.           *)
(***************************************************************************)
RefPath == <<"/", "r", ".", "w", "a", "v">>
SingleSeeds == {0, 7, 999999}
\* what self.tts_ref_path / self.vc_target_path may hold
OptionalPaths == {None, <<>>, RefPath}

InitSingle ==
    /\ \/ \E t \in Texts, r \in OptionalPaths, s \in SingleSeeds :
            singles = <<TTSWorker("tts_model", t, r, 50, 80, s, 50)>>
       \/ \E a \in InputFiles, r \in OptionalPaths :
            singles = <<VCWorker("vc_model", a, r)>>
    /\ workers = <<>>
    /\ gui = NoGui
    /\ stopped_at = <<>>

NextSingle ==
    \/ SingleProgressSeed(TheWorker)
    \/ SingleSeedSkip(TheWorker)
    \/ SingleSeedCall(TheWorker)
    \/ SingleSeedRaise(TheWorker)
    \/ SingleProgressGenerate(TheWorker)
    \/ SingleGenerateReturn(TheWorker)
    \/ SingleGenerateRaise(TheWorker)
    \/ SingleSaveReturn(TheWorker)
    \/ SingleSaveRaise(TheWorker)
    \/ SingleEmitFinished(TheWorker)
    \/ SingleEmitError(TheWorker)

SpecSingle == InitSingle /\ [][NextSingle]_vars

(***************************************************************************)
(* AudioRecorder (the same class in both files).  The recorder is a record *)
(* of its attributes; `audio` holds what surrounds it: the input streams   *)
(* PortAudio has opened, the files written, the call of stop_recording the *)
(* control thread is in, and the history of the last call.  A callback     *)
(* runs on the thread of its stream and takes two steps, the test of the   *)
(* flag and the put, between which the control thread may run.             *)
(***************************************************************************)
\* self.samplerate and self.channels
SampleRate == 44100
Channels == 1

\* AudioRecorder.__init__; stream 0: the attribute stream does not exist yet
AudioRecorder ==
    [recording |-> FALSE, frames |-> <<>>, q |-> <<>>, stream |-> 0,
     samplerate |-> SampleRate, channels |-> Channels]

\* sd.InputStream(samplerate, channels, callback) followed by start();
\* cb is the number of the block its running callback holds, 0 when none runs
InputStream(samplerate, channels) ==
    [state |-> "active", samplerate |-> samplerate, channels |-> channels, cb |-> 0]

\* indata.copy() of the n-th callback that found the flag set
Block(n) == <<n>>

\* np.vstack(frames) for a non-empty list: the rows of the blocks, in list order
RECURSIVE Vstack(_)
Vstack(frames) == IF frames = <<>> THEN <<>> ELSE frames[1] \o Vstack(Drop(frames, 1))

\* what stop_recording returns: None, or an array
Absent == [absent |-> TRUE, data |-> <<>>]
Buffer(data) == [absent |-> FALSE, data |-> data]

\* no call of stop_recording under way / no call finished so far
NoCall == [op |-> "none", who |-> "none", path |-> <<>>]
NoLast ==
    [op |-> "none", who |-> "none", raised |-> FALSE, result |-> Absent, flag |-> "none",
     session |-> <<>>]

\* the surroundings of a fresh recorder
Audio ==
    [streams |-> <<>>, blocks |-> 0, files |-> {}, call |-> NoCall, last |-> NoLast,
     session |-> <<>>, unhandled |-> FALSE]

\* the outcome of a finished call, kept as history
Last(op, who, raised, result, flag, session) ==
    [op |-> op, who |-> who, raised |-> raised, result |-> result, flag |-> flag,
     session |-> session]

\* start_recording, all of it: flag, frame list, a new stream opened and started
StartRecordingReturns(g) ==
    [g EXCEPT !.recorder.recording = TRUE,
              !.recorder.frames = <<>>,
              !.recorder.stream = Len(g.audio.streams) + 1,
              !.audio.streams = Append(@, InputStream(g.recorder.samplerate, g.recorder.channels)),
              !.audio.session = <<>>]

\* start_recording when sd.InputStream raises (no input device): the two
\* assignments before it have been made, self.stream is untouched
StartRecordingRaises(g) ==
    [g EXCEPT !.recorder.recording = TRUE,
              !.recorder.frames = <<>>,
              !.audio.session = <<>>]

\* self.stream.stop(); self.stream.close(), if the attribute exists
StreamsAfterStop(g) ==
    IF g.recorder.stream = 0 THEN g.audio.streams
    ELSE [g.audio.streams EXCEPT ![g.recorder.stream].state = "closed"]

\* the frame list once the queue has been emptied into it
FramesAfterDrain(g) == g.recorder.frames \o g.recorder.q

\* np.vstack(self.frames) if self.frames else None
StopResult(frames) == IF frames # <<>> THEN Buffer(Vstack(frames)) ELSE Absent

\* stop_recording after its first statement: stream stopped and closed, queue drained
StopRecordingReturns(g) ==
    [g EXCEPT !.recorder.frames = FramesAfterDrain(g),
              !.recorder.q = <<>>,
              !.audio.streams = StreamsAfterStop(g)]

\* sf.write(filename, audio_data, self.samplerate): the file is created or replaced
Written(files, filename, data, samplerate) ==
    {f \in files : f.path # filename}
        \cup {[path |-> filename, data |-> data, samplerate |-> samplerate]}

(***************************************************************************)
(* The bulk control layer: BulkChatterBoxGUI.  Handlers run on the one     *)
(* control thread, each to its end; the signals of the workers reach their *)
(* slots through the event queue of that thread, in the order each worker  *)
(* emitted them.  Label texts and style sheets are left out.  The history  *)
(* stopped_at is kept for the worker taken on its own only.                *)
(***************************************************************************)
Space == " "
Newline == "\n"
Whitespace == {Space, Newline, "\t"}

\* s.lstrip() and s.strip()
RECURSIVE LStrip(_)
LStrip(s) == IF s # <<>> /\ s[1] \in Whitespace THEN LStrip(Drop(s, 1)) ELSE s
RECURSIVE RStripSpace(_)
RStripSpace(s) ==
    IF s # <<>> /\ s[Len(s)] \in Whitespace THEN RStripSpace(Take(s, Len(s) - 1)) ELSE s
Strip(s) == RStripSpace(LStrip(s))

\* s.split(c): the pieces between the separators, empty ones included
RECURSIVE Split(_, _)
Split(s, c) ==
    LET hits == {j \in 1..Len(s) : s[j] = c}
    IN  IF hits = {} THEN <<s>>
        ELSE LET j == CHOOSE h \in hits : \A m \in hits : h <= m
             IN  <<Take(s, j - 1)>> \o Split(Drop(s, j), c)

\* [f(x) for x in seq if keep(x)] with f = strip and keep = non-empty after strip
RECURSIVE StrippedNonBlank(_)
StrippedNonBlank(lines) ==
    IF lines = <<>> THEN <<>>
    ELSE (IF Strip(lines[1]) # <<>> THEN <<Strip(lines[1])>> ELSE <<>>)
         \o StrippedNonBlank(Drop(lines, 1))

\* the work list generate_bulk_tts builds from the text box
TextsToGenerate(g) ==
    IF g.tts_multiline_radio THEN StrippedNonBlank(Split(g.tts_text_input, Newline))
    ELSE <<Strip(g.tts_text_input)>>

\* "output"
DefaultBaseName == <<"o", "u", "t", "p", "u", "t">>
\* self.tts_filename_input.text() or "output"
BaseFilename(g) == IF g.tts_filename_input = <<>> THEN DefaultBaseName ELSE g.tts_filename_input

\* CompactParamWidget.get_params(), in hundredths, plus params['ref_audio']
GetParams(g) ==
    [exaggeration |-> g.tts_params.exaggeration_slider,
     cfg_weight |-> g.tts_params.cfg_slider,
     temperature |-> g.tts_params.temperature_slider,
     seed |-> g.tts_params.seed_input,
     ref_audio |-> g.tts_ref_path]

\* the two texts of a Record button
RecordText == <<"Record">>
StopText == <<"Stop">>

\* text[:50] + "..." if len(text) > 50 else text
DisplayText(t) == IF Len(t) > 50 THEN Take(t, 50) \o <<"...">> ELSE t

\* BulkChatterBoxGUI.__init__ with both tabs built; the text box holds text
InitialGui(text) ==
    [tts_model |-> None, vc_model |-> None,
     output_dir |-> OutDir,
     tts_multiline_radio |-> TRUE, tts_single_radio |-> FALSE,
     tts_text_input |-> text,
     tts_filename_input |-> DefaultBaseName,
     tts_params |-> [exaggeration_slider |-> 50, cfg_slider |-> 50,
                     temperature_slider |-> 80, seed_input |-> 0],
     tts_ref_path |-> None, vc_target_path |-> None,
     vc_file_list |-> <<>>, vc_file_count_label |-> 0,
     tts_generate_btn |-> TRUE, tts_stop_btn |-> FALSE,
     vc_convert_btn |-> TRUE, vc_stop_btn |-> FALSE,
     status_progress |-> [visible |-> FALSE, maximum |-> 100, value |-> -1],
     tts_results_table |-> <<>>, vc_results_table |-> <<>>,
     tts_worker |-> 0, vc_worker |-> 0,
     delivered |-> <<>>,
     pending |-> <<>>, loads |-> [tts |-> 0, vc |-> 0], load_failed |-> "none",
     recorder |-> AudioRecorder, audio |-> Audio,
     tts_record_btn |-> RecordText, vc_record_btn |-> RecordText]

\* a worker object is created and started: it joins the workers of the run
StartWorker(w) ==
    /\ Len(workers) < MaxWorkers
    /\ workers' = Append(workers, w)
    /\ stopped_at' = Append(stopped_at, NotStopped)

\* A launch handler that finds its model unset calls QApplication.processEvents()
\* before it loads: the handlers of the events waiting at that moment run inside
\* the call.  gui.pending is the stack of the launch handlers that are at that
\* call, each with the work list it had built; the innermost is the last.
Pending(kind, items) == [kind |-> kind, items |-> items]
\* the run of the model has room for one more launch
Room == Len(workers) + Len(gui.pending) < MaxWorkers
\* the innermost launch handler at processEvents() is of the given kind
Resumes(kind) == gui.pending # <<>> /\ gui.pending[Len(gui.pending)].kind = kind
Popped(g) == [g EXCEPT !.pending = SubSeq(@, 1, Len(@) - 1)]

\* ChatterboxTTS.from_pretrained / ChatterboxVC.from_pretrained returned
TtsModelHandle == <<"tts_model">>
VcModelHandle == <<"vc_model">>
LoadedTts(g) ==
    [g EXCEPT !.tts_model = TtsModelHandle, !.loads.tts = @ + 1, !.load_failed = "none"]
LoadedVc(g) ==
    [g EXCEPT !.vc_model = VcModelHandle, !.loads.vc = @ + 1, !.load_failed = "none"]
\* the except branch leaves the launch button disabled
LoadFailedDisables(g, kind) ==
    IF kind = "tts" THEN [Popped(g) EXCEPT !.load_failed = kind, !.tts_generate_btn = FALSE]
    ELSE [Popped(g) EXCEPT !.load_failed = kind, !.vc_convert_btn = FALSE]
\* from_pretrained raised: the kind is kept as history until a load succeeds
LoadFailed(g, kind) == [Popped(g) EXCEPT !.load_failed = kind]

\* every path of the group is appended
AddedFilesAll(list, files) == list \o files

\* the list after add_vc_files(files): a path is added unless an item equals it
RECURSIVE AddedFiles(_, _)
AddedFiles(list, files) ==
    IF files = <<>> THEN list
    ELSE AddedFiles(IF \E j \in 1..Len(list) : list[j] = files[1]
                    THEN list ELSE Append(list, files[1]),
                    Drop(files, 1))

\* update_vc_file_count
UpdateVcFileCount(g) ==
    [g EXCEPT !.vc_file_count_label = Len(g.vc_file_list),
              !.vc_convert_btn = Len(g.vc_file_list) > 0]

\* add_vc_files(files), from the file dialog or from a drop on the list
AddVcFiles(files) ==
    /\ gui' = UpdateVcFileCount([gui EXCEPT !.vc_file_list = AddedFiles(@, files)])
    /\ UNCHANGED <<workers, singles, stopped_at>>

\* generate_bulk_tts with nothing to generate: a warning, nothing else
GenerateBulkTtsNoText ==
    /\ gui.tts_generate_btn
    /\ TextsToGenerate(gui) = <<>>
    /\ UNCHANGED vars

\* generate_bulk_tts with the model unset, up to QApplication.processEvents()
GenerateBulkTtsBegin ==
    /\ gui.tts_generate_btn
    /\ TextsToGenerate(gui) # <<>>
    /\ gui.tts_model = None
    /\ Room
    /\ gui' = [gui EXCEPT !.pending = Append(@, Pending("tts", TextsToGenerate(gui)))]
    /\ UNCHANGED <<workers, singles, stopped_at>>

\* ... and the load raising: an error box, and the handler returns
GenerateBulkTtsLoadFails ==
    /\ Resumes("tts")
    /\ gui' = LoadFailed(gui, "tts")
    /\ UNCHANGED <<workers, singles, stopped_at>>

\* the state of the window when generate_bulk_tts has started worker number id
TtsLaunched(g, id, texts) ==
    [g EXCEPT !.tts_results_table = <<>>,
              !.tts_worker = id,
              !.tts_generate_btn = FALSE,
              !.tts_stop_btn = TRUE,
              !.status_progress.visible = TRUE,
              !.status_progress.maximum = Len(texts),
              !.delivered = Append(@, 0)]

\* ... and the load returning: the handle is assigned, the worker created and started
GenerateBulkTtsLoaded ==
    /\ Resumes("tts")
    /\ LET texts == gui.pending[Len(gui.pending)].items
           g == LoadedTts(Popped(gui))
       IN  /\ StartWorker(BulkTTSWorker(g.tts_model, texts, g.output_dir, BaseFilename(g),
                                        GetParams(g)))
           /\ gui' = TtsLaunched(g, Len(workers) + 1, texts)
    /\ UNCHANGED singles

\* generate_bulk_tts with the model there: the worker is created and started
GenerateBulkTts ==
    LET texts == TextsToGenerate(gui) IN
    /\ gui.tts_generate_btn
    /\ texts # <<>>
    /\ gui.tts_model # None
    /\ Room
    /\ StartWorker(BulkTTSWorker(gui.tts_model, texts, gui.output_dir, BaseFilename(gui),
                                 GetParams(gui)))
    /\ gui' = TtsLaunched(gui, Len(workers) + 1, texts)
    /\ UNCHANGED singles

\* convert_bulk_vc with an empty list: a warning, nothing else
ConvertBulkVcNoFiles ==
    /\ gui.vc_convert_btn
    /\ gui.vc_file_list = <<>>
    /\ UNCHANGED vars

\* convert_bulk_vc with the model unset, up to QApplication.processEvents()
ConvertBulkVcBegin ==
    /\ gui.vc_convert_btn
    /\ gui.vc_file_list # <<>>
    /\ gui.vc_model = None
    /\ Room
    /\ gui' = [gui EXCEPT !.pending = Append(@, Pending("vc", gui.vc_file_list))]
    /\ UNCHANGED <<workers, singles, stopped_at>>

\* ... and the load raising: an error box, and the handler returns
ConvertBulkVcLoadFails ==
    /\ Resumes("vc")
    /\ gui' = LoadFailed(gui, "vc")
    /\ UNCHANGED <<workers, singles, stopped_at>>

\* the state of the window when convert_bulk_vc has started worker number id
VcLaunched(g, id, input_files) ==
    [g EXCEPT !.vc_results_table = <<>>,
              !.vc_worker = id,
              !.vc_convert_btn = FALSE,
              !.vc_stop_btn = TRUE,
              !.status_progress.visible = TRUE,
              !.status_progress.maximum = Len(input_files),
              !.delivered = Append(@, 0)]

\* ... and the load returning: the handle is assigned, the worker created and started
ConvertBulkVcLoaded ==
    /\ Resumes("vc")
    /\ LET input_files == gui.pending[Len(gui.pending)].items
           g == LoadedVc(Popped(gui))
       IN  /\ StartWorker(BulkVCWorker(g.vc_model, input_files, g.output_dir,
                                       g.vc_target_path))
           /\ gui' = VcLaunched(g, Len(workers) + 1, input_files)
    /\ UNCHANGED singles

\* convert_bulk_vc with the model there: the worker is created and started
ConvertBulkVc ==
    /\ gui.vc_convert_btn
    /\ gui.vc_file_list # <<>>
    /\ gui.vc_model # None
    /\ Room
    /\ StartWorker(BulkVCWorker(gui.vc_model, gui.vc_file_list, gui.output_dir,
                                gui.vc_target_path))
    /\ gui' = VcLaunched(gui, Len(workers) + 1, gui.vc_file_list)
    /\ UNCHANGED singles

\* stop_tts_generation: if self.tts_worker: self.tts_worker.stop()
StopTtsGeneration ==
    /\ gui.tts_stop_btn
    /\ gui.tts_worker # 0
    /\ workers[gui.tts_worker].is_running
    /\ SetWorker(gui.tts_worker, StopFlag(workers[gui.tts_worker]))
    /\ UNCHANGED <<singles, gui, stopped_at>>

\* stop_vc_conversion: if self.vc_worker: self.vc_worker.stop()
StopVcConversion ==
    /\ gui.vc_stop_btn
    /\ gui.vc_worker # 0
    /\ workers[gui.vc_worker].is_running
    /\ SetWorker(gui.vc_worker, StopFlag(workers[gui.vc_worker]))
    /\ UNCHANGED <<singles, gui, stopped_at>>

\* the rows on_tts_file_completed / on_tts_error and their conversion twins insert
CompletedRow(kind, e) ==
    <<IF kind = "tts" THEN DisplayText(e.item) ELSE PathName(e.item), PathName(e.payload),
      <<"Complete">>>>
ErrorRow(kind, e) ==
    <<IF kind = "tts" THEN DisplayText(e.item) ELSE PathName(e.item), <<"Failed">>, e.payload>>

\* the slot connected to the signal e of a worker of the given kind
Slot(g, kind, e) ==
    IF e.type = "progress" THEN [g EXCEPT !.status_progress.value = e.current]
    ELSE IF e.type = "file_completed" THEN
        IF kind = "tts" THEN [g EXCEPT !.tts_results_table = Append(@, CompletedRow(kind, e))]
        ELSE [g EXCEPT !.vc_results_table = Append(@, CompletedRow(kind, e))]
    ELSE IF e.type = "error" THEN
        IF kind = "tts" THEN [g EXCEPT !.tts_results_table = Append(@, ErrorRow(kind, e))]
        ELSE [g EXCEPT !.vc_results_table = Append(@, ErrorRow(kind, e))]
    ELSE IF kind = "tts" THEN
        \* on_tts_finished
        [g EXCEPT !.tts_generate_btn = TRUE, !.tts_stop_btn = FALSE,
                  !.status_progress.visible = FALSE]
    ELSE
        \* on_vc_finished
        UpdateVcFileCount([g EXCEPT !.vc_convert_btn = TRUE, !.vc_stop_btn = FALSE,
                                    !.status_progress.visible = FALSE])

\* the control thread takes the next queued signal of worker i and runs its slot
Deliver(i) ==
    /\ i <= Len(workers)
    /\ gui.delivered[i] < Len(workers[i].events)
    /\ gui' = [Slot(gui, workers[i].kind, workers[i].events[gui.delivered[i] + 1])
                  EXCEPT !.delivered[i] = @ + 1]
    /\ UNCHANGED <<workers, singles, stopped_at>>

\* what the text box holds when the window is used
TextInputs == {<<"H", "i", Newline, " ", "Y", "o">>, <<Space, Newline>>}
\* the files offered to the conversion list, one group per dialog or drop
GuiFiles == {<<"/", "d", "/", "a", ".", "w", "a", "v">>}
FileGroups == {<<f>> : f \in GuiFiles}

InitBulkGui ==
    /\ \E t \in TextInputs : gui = InitialGui(t)
    /\ workers = <<>>
    /\ singles = <<>>
    /\ stopped_at = <<>>

NextBulkGui ==
    \/ \E files \in FileGroups : AddVcFiles(files)
    \/ GenerateBulkTtsNoText
    \/ GenerateBulkTtsBegin
    \/ GenerateBulkTtsLoadFails
    \/ GenerateBulkTtsLoaded
    \/ GenerateBulkTts
    \/ ConvertBulkVcNoFiles
    \/ ConvertBulkVcBegin
    \/ ConvertBulkVcLoadFails
    \/ ConvertBulkVcLoaded
    \/ ConvertBulkVc
    \/ StopTtsGeneration
    \/ StopVcConversion
    \/ \E i \in 1..MaxWorkers :
          \/ Deliver(i)
          \/ i <= Len(workers) /\ LoopCheck(i)
          \/ i <= Len(workers) /\ EmitProgress(i)
          \/ i <= Len(workers) /\ SeedSkip(i)
          \/ i <= Len(workers) /\ GenerateReturn(i)
          \/ i <= Len(workers) /\ GenerateRaise(i)
          \/ i <= Len(workers) /\ SaveReturn(i)
          \/ i <= Len(workers) /\ EmitCompleted(i)
          \/ i <= Len(workers) /\ EmitError(i)
          \/ i <= Len(workers) /\ EmitFinished(i)

SpecBulkGui == InitBulkGui /\ [][NextBulkGui]_vars

(***************************************************************************)
(* The parameter controls of CompactParamWidget.  A slider or spin box     *)
(* keeps its value inside the range given to setRange: a value outside is  *)
(* bounded to the nearest end.  Slider positions are hundredths.           *)
(***************************************************************************)
\* setRange(25, 200), setRange(0, 100), setRange(5, 500), setRange(0, 999999)
ExaggerationMin == 25
ExaggerationMax == 200
CfgMin == 0
CfgMax == 100
TemperatureMin == 5
TemperatureMax == 500
SeedMin == 0
SeedMax == 999999

\* a control without bounds
Unbounded(v, lo, hi) == v

\* QAbstractSlider.setValue / QSpinBox.setValue: v bounded to lo..hi
Bounded(v, lo, hi) == IF v < lo THEN lo ELSE IF v > hi THEN hi ELSE v

\* the positions asked of a control with range lo..hi and initial position v
Requests(lo, v, hi) == {lo - 1, lo, v, hi, hi + 1}

SetExaggeration ==
    \E v \in Requests(ExaggerationMin, 50, ExaggerationMax) :
        /\ gui' = [gui EXCEPT !.tts_params.exaggeration_slider =
                                  Bounded(v, ExaggerationMin, ExaggerationMax)]
        /\ UNCHANGED <<workers, singles, stopped_at>>

SetCfgWeight ==
    \E v \in Requests(CfgMin, 50, CfgMax) :
        /\ gui' = [gui EXCEPT !.tts_params.cfg_slider = Bounded(v, CfgMin, CfgMax)]
        /\ UNCHANGED <<workers, singles, stopped_at>>

SetTemperature ==
    \E v \in Requests(TemperatureMin, 80, TemperatureMax) :
        /\ gui' = [gui EXCEPT !.tts_params.temperature_slider =
                                  Bounded(v, TemperatureMin, TemperatureMax)]
        /\ UNCHANGED <<workers, singles, stopped_at>>

SetSeed ==
    \E v \in Requests(SeedMin, 7, SeedMax) :
        /\ gui' = [gui EXCEPT !.tts_params.seed_input = Bounded(v, SeedMin, SeedMax)]
        /\ UNCHANGED <<workers, singles, stopped_at>>

\* the window with its controls moved about and synthesis launched, by one
\* launch handler at a time
InitParams ==
    /\ gui = InitialGui(<<"H", "i">>)
    /\ workers = <<>>
    /\ singles = <<>>
    /\ stopped_at = <<>>

NextParams ==
    \/ SetExaggeration
    \/ SetCfgWeight
    \/ SetTemperature
    \/ SetSeed
    \/ gui.pending = <<>> /\ GenerateBulkTtsBegin
    \/ GenerateBulkTtsLoadFails
    \/ GenerateBulkTtsLoaded

SpecParams == InitParams /\ [][NextParams]_vars

(***************************************************************************)
(* Recording.  stop_recording is entered in one step (the flag is cleared) *)
(* and left in another, once the callback of the stream it stops has       *)
(* returned: Pa_StopStream waits for it.  An exception that leaves a slot  *)
(* ends the process (PyQt6 aborts on it).                                  *)
(***************************************************************************)
\* "temp_tts_ref.wav" and "temp_vc_target.wav"
TempTtsRef == <<"t", "e", "m", "p", "_", "t", "t", "s", "_", "r", "e", "f">> \o DotWav
TempVcTarget ==
    <<"t", "e", "m", "p", "_", "v", "c", "_", "t", "a", "r", "g", "e", "t">> \o DotWav
\* a file name handed to save_recording by a direct caller
RecordingPath == <<"/", "o", "/", "r">> \o DotWav

\* the control thread is between two handlers and the process is alive
Idle == gui.audio.call = NoCall /\ ~gui.audio.unhandled

RecordBtn(g, who) == IF who = "tts" THEN g.tts_record_btn ELSE g.vc_record_btn
SetRecordBtn(g, who, text) ==
    IF who = "tts" THEN [g EXCEPT !.tts_record_btn = text]
    ELSE [g EXCEPT !.vc_record_btn = text]
TempPath(g, who) == PathJoin(g.output_dir, IF who = "tts" THEN TempTtsRef ELSE TempVcTarget)

\* recorder.start_recording() by a direct caller
StartRecording ==
    /\ Idle
    /\ Len(gui.audio.streams) < MaxStreams
    /\ gui' = [StartRecordingReturns(gui) EXCEPT
                  !.audio.last = Last("start", "api", FALSE, Absent, "none", <<>>)]
    /\ UNCHANGED <<workers, singles, stopped_at>>

\* ... with no input device: the exception reaches the caller
StartRecordingNoDevice ==
    /\ Idle
    /\ gui' = [StartRecordingRaises(gui) EXCEPT
                  !.audio.last = Last("start", "api", TRUE, Absent, "no device", <<>>)]
    /\ UNCHANGED <<workers, singles, stopped_at>>

\* recorder.stop_recording() by a direct caller, up to self.recording = False
StopRecording ==
    /\ Idle
    /\ gui' = [gui EXCEPT !.recorder.recording = FALSE,
                          !.audio.call = [op |-> "stop", who |-> "api", path |-> <<>>]]
    /\ UNCHANGED <<workers, singles, stopped_at>>

\* recorder.save_recording(filename) by a direct caller, up to self.recording = False
SaveRecording ==
    /\ Idle
    /\ gui' = [gui EXCEPT !.recorder.recording = FALSE,
                          !.audio.call = [op |-> "save", who |-> "api", path |-> RecordingPath]]
    /\ UNCHANGED <<workers, singles, stopped_at>>

\* a Record button pressed while it reads "Record"
ToggleStart(who) ==
    /\ Idle
    /\ RecordBtn(gui, who) = RecordText
    /\ Len(gui.audio.streams) < MaxStreams
    /\ gui' = SetRecordBtn([StartRecordingReturns(gui) EXCEPT
                               !.audio.last = Last("start", who, FALSE, Absent, "none", <<>>)],
                           who, StopText)
    /\ UNCHANGED <<workers, singles, stopped_at>>

\* ... with no input device: the exception leaves the slot before setText
ToggleStartNoDevice(who) ==
    /\ Idle
    /\ RecordBtn(gui, who) = RecordText
    /\ gui' = [StartRecordingRaises(gui) EXCEPT
                  !.audio.last = Last("start", who, TRUE, Absent, "no device", <<>>),
                  !.audio.unhandled = TRUE]
    /\ UNCHANGED <<workers, singles, stopped_at>>

\* a Record button pressed while it reads "Stop": save_recording is entered
ToggleStop(who) ==
    /\ Idle
    /\ RecordBtn(gui, who) = StopText
    /\ gui' = [gui EXCEPT !.recorder.recording = FALSE,
                          !.audio.call = [op |-> "save", who |-> who, path |-> TempPath(gui, who)]]
    /\ UNCHANGED <<workers, singles, stopped_at>>

ToggleTtsRecording == ToggleStart("tts") \/ ToggleStartNoDevice("tts") \/ ToggleStop("tts")
ToggleVcRecording == ToggleStart("vc") \/ ToggleStartNoDevice("vc") \/ ToggleStop("vc")

\* the callback of the stream stop_recording stops has returned
CallbackReturned(g) ==
    IF g.recorder.stream = 0 THEN TRUE ELSE g.audio.streams[g.recorder.stream].cb = 0

\* save_recording after stop_recording gave result: the file and the flag
SaveRecordingReturns(g, c, result) ==
    IF ~result.absent THEN
        [g EXCEPT !.audio.files = Written(@, c.path, result.data, g.recorder.samplerate),
                  !.audio.last = Last("save", c.who, FALSE, result, "true", g.audio.session)]
    ELSE
        [g EXCEPT !.audio.last = Last("save", c.who, FALSE, result, "false", g.audio.session)]

\* the toggle handler takes every flag for True
AfterSaveAlways(g, c, ok) ==
    SetRecordBtn(IF c.who = "tts" THEN [g EXCEPT !.tts_ref_path = c.path]
                 ELSE [g EXCEPT !.vc_target_path = c.path],
                 c.who, RecordText)

\* the rest of the toggle handler once save_recording returned ok
AfterSave(g, c, ok) ==
    IF c.who = "api" THEN g
    ELSE SetRecordBtn(IF ~ok THEN g
                      ELSE IF c.who = "tts" THEN [g EXCEPT !.tts_ref_path = c.path]
                      ELSE [g EXCEPT !.vc_target_path = c.path],
                      c.who, RecordText)

\* stop_recording returns, and with it save_recording and the handler that called it
StopRecordingExit ==
    /\ gui.audio.call # NoCall
    /\ ~gui.audio.unhandled
    /\ CallbackReturned(gui)
    /\ LET c == gui.audio.call
           stopped == [StopRecordingReturns(gui) EXCEPT !.audio.call = NoCall]
           result == StopResult(stopped.recorder.frames)
       IN  gui' = IF c.op = "stop"
                  THEN [stopped EXCEPT
                           !.audio.last = Last("stop", c.who, FALSE, result, "none",
                                               gui.audio.session)]
                  ELSE AfterSave(SaveRecordingReturns(stopped, c, result), c, ~result.absent)
    /\ UNCHANGED <<workers, singles, stopped_at>>

\* stop_recording returns an array and sf.write raises: nothing is written, and
\* the exception leaves save_recording and, in a slot, the slot
SaveWriteRaises ==
    /\ gui.audio.call # NoCall
    /\ gui.audio.call.op = "save"
    /\ ~gui.audio.unhandled
    /\ CallbackReturned(gui)
    /\ FramesAfterDrain(gui) # <<>>
    /\ LET c == gui.audio.call IN
       gui' = [StopRecordingReturns(gui) EXCEPT
                  !.audio.call = NoCall,
                  !.audio.last = Last("save", c.who, TRUE, StopResult(FramesAfterDrain(gui)),
                                      "none", gui.audio.session),
                  !.audio.unhandled = (c.who # "api")]
    /\ UNCHANGED <<workers, singles, stopped_at>>

\* audio_callback on the thread of stream s: `if self.recording` found true
AudioCallbackTest(s) ==
    /\ ~gui.audio.unhandled
    /\ s <= Len(gui.audio.streams)
    /\ gui.audio.streams[s].state = "active"
    /\ gui.audio.streams[s].cb = 0
    /\ gui.recorder.recording
    /\ gui.audio.blocks < MaxFrames
    /\ gui' = [gui EXCEPT !.audio.streams[s].cb = gui.audio.blocks + 1,
                          !.audio.blocks = @ + 1]
    /\ UNCHANGED <<workers, singles, stopped_at>>

\* ... self.q.put(indata.copy())
AudioCallbackPut(s) ==
    /\ ~gui.audio.unhandled
    /\ s <= Len(gui.audio.streams)
    /\ gui.audio.streams[s].cb # 0
    /\ gui' = [gui EXCEPT !.recorder.q = Append(@, Block(gui.audio.streams[s].cb)),
                          !.audio.session = Append(@, Block(gui.audio.streams[s].cb)),
                          !.audio.streams[s].cb = 0]
    /\ UNCHANGED <<workers, singles, stopped_at>>

\* the recorder on its own, called in any order
InitRecorder ==
    /\ gui = InitialGui(<<>>)
    /\ workers = <<>>
    /\ singles = <<>>
    /\ stopped_at = <<>>

NextRecorder ==
    \/ StartRecording
    \/ StartRecordingNoDevice
    \/ StopRecording
    \/ SaveRecording
    \/ StopRecordingExit
    \/ SaveWriteRaises
    \/ \E s \in 1..MaxStreams : AudioCallbackTest(s)
    \/ \E s \in 1..MaxStreams : AudioCallbackPut(s)

SpecRecorder == InitRecorder /\ [][NextRecorder]_vars

\* the recorder behind the two Record buttons of the window
NextRecordingGui ==
    \/ ToggleTtsRecording
    \/ ToggleVcRecording
    \/ StopRecordingExit
    \/ SaveWriteRaises
    \/ \E s \in 1..MaxStreams : AudioCallbackTest(s)
    \/ \E s \in 1..MaxStreams : AudioCallbackPut(s)

SpecRecordingGui == InitRecorder /\ [][NextRecordingGui]_vars

(***************************************************************************)
(* The inputs of the bulk window: what the user may change at any moment,  *)
(* also while a worker runs.                                               *)
(***************************************************************************)
\* the text box is edited
EditText(text) ==
    /\ gui.tts_text_input # text
    /\ gui' = [gui EXCEPT !.tts_text_input = text]
    /\ UNCHANGED <<workers, singles, stopped_at>>

\* a click on either input-mode box: each toggled signal sets the other box to
\* the opposite, so both flip
ToggleInputMode ==
    /\ gui' = [gui EXCEPT !.tts_multiline_radio = ~@, !.tts_single_radio = ~@]
    /\ UNCHANGED <<workers, singles, stopped_at>>

\* the base file name box is edited
EditFilename(name) ==
    /\ gui.tts_filename_input # name
    /\ gui' = [gui EXCEPT !.tts_filename_input = name]
    /\ UNCHANGED <<workers, singles, stopped_at>>

\* the workers read the window's directory: a change reaches those launched before
SelectOutputDirShared(dir_path) ==
    /\ gui.output_dir # dir_path
    /\ gui' = [gui EXCEPT !.output_dir = dir_path]
    /\ workers' = [i \in 1..Len(workers) |-> [workers[i] EXCEPT !.output_dir = dir_path]]
    /\ UNCHANGED <<singles, stopped_at>>

\* select_output_dir with a directory chosen
SelectOutputDir(dir_path) ==
    /\ gui.output_dir # dir_path
    /\ gui' = [gui EXCEPT !.output_dir = dir_path]
    /\ UNCHANGED <<workers, singles, stopped_at>>

\* load_tts_reference with a file chosen, and clear_tts_reference
LoadTtsReference(file_path) ==
    /\ gui.tts_ref_path # file_path
    /\ gui' = [gui EXCEPT !.tts_ref_path = file_path]
    /\ UNCHANGED <<workers, singles, stopped_at>>
ClearTtsReference ==
    /\ gui.tts_ref_path # None
    /\ gui' = [gui EXCEPT !.tts_ref_path = None]
    /\ UNCHANGED <<workers, singles, stopped_at>>

\* load_vc_target with a file chosen
LoadVcTarget(file_path) ==
    /\ gui.vc_target_path # file_path
    /\ gui' = [gui EXCEPT !.vc_target_path = file_path]
    /\ UNCHANGED <<workers, singles, stopped_at>>

\* what the user types and chooses
EditTexts == {<<"H", "i">>, <<Space>>}
EditNames == {DefaultBaseName, <<>>}
EditFiles == {<<<<"/", "d", "/", "a", ".", "w", "a", "v">>>>}

InitEdits ==
    /\ gui = InitialGui(<<"H", "i">>)
    /\ workers = <<>>
    /\ singles = <<>>
    /\ stopped_at = <<>>

\* the controls that do not hold what they held when the window opened
Edited ==
    LET g0 == InitialGui(<<"H", "i">>) IN
    {c \in {"text", "name", "dir", "ref", "target", "seed"} :
        \/ c = "text" /\ gui.tts_text_input # g0.tts_text_input
        \/ c = "name" /\ gui.tts_filename_input # g0.tts_filename_input
        \/ c = "dir" /\ gui.output_dir # g0.output_dir
        \/ c = "ref" /\ gui.tts_ref_path # g0.tts_ref_path
        \/ c = "target" /\ gui.vc_target_path # g0.vc_target_path
        \/ c = "seed" /\ gui.tts_params.seed_input # g0.tts_params.seed_input}
\* a worker has been launched, and fewer than MaxEdits controls were changed
MayEdit == workers # <<>> /\ Cardinality(Edited) < MaxEdits

\* The inputs are changed once a worker has been launched.  The launch handlers
\* here run one at a time: no click waits in the event queue when a handler
\* reaches processEvents().
NextEdits ==
    \/ MayEdit /\ \E t \in EditTexts : EditText(t)
    \/ MayEdit /\ \E n \in EditNames : EditFilename(n)
    \/ MayEdit /\ SelectOutputDir(RootDir)
    \/ MayEdit /\ LoadTtsReference(RefPath)
    \/ workers # <<>> /\ ClearTtsReference
    \/ MayEdit /\ LoadVcTarget(RefPath)
    \/ MayEdit /\ SetSeed
    \/ \E files \in EditFiles : AddVcFiles(files)
    \/ GenerateBulkTtsNoText
    \/ gui.pending = <<>> /\ GenerateBulkTtsBegin
    \/ GenerateBulkTtsLoadFails
    \/ GenerateBulkTtsLoaded
    \/ GenerateBulkTts
    \/ ConvertBulkVcNoFiles
    \/ gui.pending = <<>> /\ ConvertBulkVcBegin
    \/ ConvertBulkVcLoadFails
    \/ ConvertBulkVcLoaded
    \/ ConvertBulkVc
    \/ \E i \in 1..MaxWorkers :
          \/ Deliver(i)
          \/ i <= Len(workers) /\ LoopCheck(i)
          \/ i <= Len(workers) /\ EmitProgress(i)
          \/ i <= Len(workers) /\ SeedSkip(i)
          \/ i <= Len(workers) /\ SeedCall(i)
          \/ i <= Len(workers) /\ GenerateReturn(i)
          \/ i <= Len(workers) /\ GenerateRaise(i)
          \/ i <= Len(workers) /\ SaveReturn(i)
          \/ i <= Len(workers) /\ EmitCompleted(i)
          \/ i <= Len(workers) /\ EmitError(i)
          \/ i <= Len(workers) /\ EmitFinished(i)

SpecEdits == InitEdits /\ [][NextEdits]_vars

(***************************************************************************)
(* The text box and the input mode of the synthesis tab, and the launch.   *)
(***************************************************************************)
InitTextInput ==
    /\ \E t \in TextInputs \cup EditTexts : gui = InitialGui(t)
    /\ workers = <<>>
    /\ singles = <<>>
    /\ stopped_at = <<>>

NextTextInput ==
    \/ \E t \in TextInputs \cup EditTexts : EditText(t)
    \/ ToggleInputMode
    \/ GenerateBulkTtsNoText
    \/ gui.pending = <<>> /\ GenerateBulkTtsBegin
    \/ GenerateBulkTtsLoadFails
    \/ GenerateBulkTtsLoaded

SpecTextInput == InitTextInput /\ [][NextTextInput]_vars

(***************************************************************************)
(* The file list of the conversion tab: Add Files, drops and Clear.        *)
(***************************************************************************)
\* str.lower() on the letters the model's paths hold
LowerChar(c) ==
    IF c = "A" THEN "a" ELSE IF c = "W" THEN "w" ELSE IF c = "V" THEN "v" ELSE c
Lower(s) == [k \in 1..Len(s) |-> LowerChar(s[k])]
\* s.endswith(suffixes)
EndsWith(s, suffixes) ==
    \E suf \in suffixes : Len(s) >= Len(suf) /\ Drop(s, Len(s) - Len(suf)) = suf
AudioSuffixes ==
    {<<".", "w", "a", "v">>, <<".", "m", "p", "3">>, <<".", "f", "l", "a", "c">>,
     <<".", "o", "g", "g">>, <<".", "m", "4", "a">>}

\* the local files of the dropped urls whose lower-cased path has an audio suffix
RECURSIVE DroppedFiles(_)
DroppedFiles(urls) ==
    IF urls = <<>> THEN <<>>
    ELSE (IF EndsWith(Lower(urls[1]), AudioSuffixes) THEN <<urls[1]>> ELSE <<>>)
         \o DroppedFiles(Drop(urls, 1))

\* DragDropListWidget.dropEvent: files_dropped is emitted if a file is left,
\* and add_vc_files is its slot
DropEvent(urls) ==
    /\ DroppedFiles(urls) # <<>>
    /\ AddVcFiles(DroppedFiles(urls))

\* the Clear button: QListWidget.clear of the list, and nothing else
ClearVcFiles ==
    /\ gui.vc_file_list # <<>>
    /\ gui' = [gui EXCEPT !.vc_file_list = <<>>]
    /\ UNCHANGED <<workers, singles, stopped_at>>

\* the paths a dialog returns and the paths dragged onto the list
AudioPaths ==
    {<<"/", "d", "/", "a", ".", "w", "a", "v">>, <<"/", "e", "/", "a", ".", "w", "a", "v">>,
     <<"/", "d", "/", "A", ".", "W", "A", "V">>, <<"/", "d", "/", "b", ".", "m", "p", "3">>,
     <<"/", "d", "/", "c", ".", "o", "g", "g">>}
DraggedPaths == AudioPaths \cup {<<"/", "d", "/", "n", ".", "t", "x", "t">>}
Groups(S) == UNION {[1..k -> S] : k \in 1..MaxGroup}

InitFileList ==
    /\ gui = InitialGui(<<>>)
    /\ workers = <<>>
    /\ singles = <<>>
    /\ stopped_at = <<>>

NextFileList ==
    \/ \E files \in ListsUpTo(AudioPaths, MaxGroup) : AddVcFiles(files)
    \/ \E urls \in Groups(DraggedPaths) : DropEvent(urls)
    \/ ClearVcFiles

SpecFileList == InitFileList /\ [][NextFileList]_vars

(***************************************************************************)
(* The single-item window: ChatterBoxGUI of main.py.  The control thread   *)
(* runs one handler at a time, but a handler that calls                    *)
(* QApplication.processEvents() or opens a QMessageBox runs the handlers   *)
(* of the events that arrive until that call returns.  gui.pending is the  *)
(* stack of the handlers standing at such a call, the innermost last.      *)
(***************************************************************************)
\* if len(text) > 300
MaxTextLen == 300
LongText == [k \in 1..(MaxTextLen + 1) |-> "a"]

\* a handler of the given kind at a nested call; id is the worker whose signal it handles
Frame(at, kind, id) == [at |-> at, kind |-> kind, id |-> id]

\* ChatterBoxGUI.__init__ with the text box holding text and the seed box seed
InitialMainGui(text, seed) ==
    [tts_model |-> None, vc_model |-> None,
     tts_text_input |-> text, tts_ref_path |-> None,
     tts_exaggeration_slider |-> 50, tts_cfg_slider |-> 50,
     tts_temperature_slider |-> 80, tts_seed |-> seed,
     vc_source_path |-> None, vc_target_path |-> None,
     tts_generate_btn |-> TRUE, vc_convert_btn |-> FALSE,
     tts_progress |-> FALSE, vc_progress |-> FALSE,
     tts_play_btn |-> FALSE, tts_save_btn |-> FALSE,
     vc_play_btn |-> FALSE, vc_save_btn |-> FALSE,
     tts_output_path |-> None, vc_output_path |-> None,
     tts_worker |-> 0, vc_worker |-> 0,
     delivered |-> <<>>, pending |-> <<>>]

\* no message box is open: the window takes clicks
Interactive == \A k \in 1..Len(gui.pending) : gui.pending[k].at = "processEvents"
\* the launch handlers standing at processEvents()
Loading == {k \in 1..Len(gui.pending) : gui.pending[k].at = "processEvents"}
\* the run of the model has room for one more single-item worker
MainRoom == Len(singles) + Cardinality(Loading) < MaxWorkers
\* the innermost handler stands at the given call
Innermost(at, kind) ==
    /\ gui.pending # <<>>
    /\ gui.pending[Len(gui.pending)].at = at
    /\ gui.pending[Len(gui.pending)].kind = kind

\* a QThread is created and started: it joins the single-item workers of the run
StartSingle(w) ==
    /\ Len(singles) < MaxWorkers
    /\ singles' = Append(singles, w)

\* load_vc_source with a file chosen in the dialog
LoadVcSource(path) ==
    /\ Interactive
    /\ gui' = [gui EXCEPT !.vc_source_path = path, !.vc_convert_btn = TRUE]
    /\ UNCHANGED <<workers, singles, stopped_at>>

\* generate_tts with no text or too long a text: a warning, nothing else
GenerateTtsRejected ==
    /\ Interactive
    /\ gui.tts_generate_btn
    /\ gui.tts_text_input = <<>> \/ Len(gui.tts_text_input) > MaxTextLen
    /\ UNCHANGED vars

GenerateTtsAccepts ==
    /\ Interactive
    /\ gui.tts_generate_btn
    /\ gui.tts_text_input # <<>>
    /\ Len(gui.tts_text_input) <= MaxTextLen
    /\ MainRoom

\* generate_tts with the model unset, up to QApplication.processEvents()
GenerateTtsBegin ==
    /\ GenerateTtsAccepts
    /\ gui.tts_model = None
    /\ gui' = [gui EXCEPT !.pending = Append(@, Frame("processEvents", "tts", 0))]
    /\ UNCHANGED <<workers, singles, stopped_at>>

\* ... the load raising: QMessageBox.critical is open
GenerateTtsLoadFails ==
    /\ Innermost("processEvents", "tts")
    /\ gui' = [gui EXCEPT !.pending[Len(gui.pending)] = Frame("load_box", "tts", 0)]
    /\ UNCHANGED <<workers, singles, stopped_at>>

\* the state of the window when generate_tts has started worker number id
MainTtsLaunched(g, id) ==
    [g EXCEPT !.tts_worker = id, !.tts_generate_btn = FALSE, !.tts_progress = TRUE,
              !.delivered = Append(@, 0)]

\* the worker generate_tts creates
NewTTSWorker(g) ==
    TTSWorker(g.tts_model, g.tts_text_input, g.tts_ref_path, g.tts_exaggeration_slider,
              g.tts_temperature_slider, g.tts_seed, g.tts_cfg_slider)

\* ... the load returning: the handle is assigned, the worker created and started
GenerateTtsLoaded ==
    /\ Innermost("processEvents", "tts")
    /\ LET g == [Popped(gui) EXCEPT !.tts_model = TtsModelHandle] IN
       /\ StartSingle(NewTTSWorker(g))
       /\ gui' = MainTtsLaunched(g, Len(singles) + 1)
    /\ UNCHANGED <<workers, stopped_at>>

\* generate_tts with the model there
GenerateTts ==
    /\ GenerateTtsAccepts
    /\ gui.tts_model # None
    /\ StartSingle(NewTTSWorker(gui))
    /\ gui' = MainTtsLaunched(gui, Len(singles) + 1)
    /\ UNCHANGED <<workers, stopped_at>>

\* convert_voice gets past `if not self.vc_source_path` (the button is enabled
\* only by the handlers that set the source, so the warning is never shown)
ConvertVoiceAccepts ==
    /\ Interactive
    /\ gui.vc_convert_btn
    /\ gui.vc_source_path \notin {None, <<>>}
    /\ MainRoom

\* convert_voice with the model unset, up to QApplication.processEvents()
ConvertVoiceBegin ==
    /\ ConvertVoiceAccepts
    /\ gui.vc_model = None
    /\ gui' = [gui EXCEPT !.pending = Append(@, Frame("processEvents", "vc", 0))]
    /\ UNCHANGED <<workers, singles, stopped_at>>

ConvertVoiceLoadFails ==
    /\ Innermost("processEvents", "vc")
    /\ gui' = [gui EXCEPT !.pending[Len(gui.pending)] = Frame("load_box", "vc", 0)]
    /\ UNCHANGED <<workers, singles, stopped_at>>

\* the state of the window when convert_voice has started worker number id
MainVcLaunched(g, id) ==
    [g EXCEPT !.vc_worker = id, !.vc_convert_btn = FALSE, !.vc_progress = TRUE,
              !.delivered = Append(@, 0)]

NewVCWorker(g) == VCWorker(g.vc_model, g.vc_source_path, g.vc_target_path)

ConvertVoiceLoaded ==
    /\ Innermost("processEvents", "vc")
    /\ LET g == [Popped(gui) EXCEPT !.vc_model = VcModelHandle] IN
       /\ StartSingle(NewVCWorker(g))
       /\ gui' = MainVcLaunched(g, Len(singles) + 1)
    /\ UNCHANGED <<workers, stopped_at>>

ConvertVoice ==
    /\ ConvertVoiceAccepts
    /\ gui.vc_model # None
    /\ StartSingle(NewVCWorker(gui))
    /\ gui' = MainVcLaunched(gui, Len(singles) + 1)
    /\ UNCHANGED <<workers, stopped_at>>

\* the message box of a failed load is closed: the launch handler returns
CloseLoadBox ==
    /\ gui.pending # <<>>
    /\ gui.pending[Len(gui.pending)].at = "load_box"
    /\ gui' = Popped(gui)
    /\ UNCHANGED <<workers, singles, stopped_at>>

\* on_tts_finished / on_vc_finished
OnFinished(g, kind, output_path) ==
    IF kind = "tts"
    THEN [g EXCEPT !.tts_output_path = output_path, !.tts_play_btn = TRUE,
                   !.tts_save_btn = TRUE, !.tts_generate_btn = TRUE, !.tts_progress = FALSE]
    ELSE [g EXCEPT !.vc_output_path = output_path, !.vc_play_btn = TRUE,
                   !.vc_save_btn = TRUE, !.vc_convert_btn = TRUE, !.vc_progress = FALSE]

\* on_tts_error / on_vc_error up to QMessageBox.critical: the box is open
OnErrorBox(g, kind, id) == [g EXCEPT !.pending = Append(@, Frame("error_box", kind, id))]

\* the error handler returns with the launch button left as it was
OnErrorReturnsOnly(g, kind) == Popped(g)
\* on_tts_error / on_vc_error after the box is closed
OnErrorReturns(g, kind) ==
    IF kind = "tts"
    THEN [Popped(g) EXCEPT !.tts_generate_btn = TRUE, !.tts_progress = FALSE]
    ELSE [Popped(g) EXCEPT !.vc_convert_btn = TRUE, !.vc_progress = FALSE]

\* the slot connected to the signal e of single-item worker i
MainSlot(g, i, e) ==
    IF e.type = "progress" THEN g
    ELSE IF e.type = "finished" THEN OnFinished(g, singles[i].kind, e.payload)
    ELSE OnErrorBox(g, singles[i].kind, i)

\* the control thread takes the next queued signal of worker i and runs its slot
MainDeliver(i) ==
    /\ i <= Len(singles)
    /\ gui.delivered[i] < Len(singles[i].events)
    /\ gui' = [MainSlot(gui, i, singles[i].events[gui.delivered[i] + 1])
                  EXCEPT !.delivered[i] = @ + 1]
    /\ UNCHANGED <<workers, singles, stopped_at>>

\* the user closes the error box: the rest of the error handler runs
CloseErrorBox ==
    /\ gui.pending # <<>>
    /\ gui.pending[Len(gui.pending)].at = "error_box"
    /\ gui' = OnErrorReturns(gui, gui.pending[Len(gui.pending)].kind)
    /\ UNCHANGED <<workers, singles, stopped_at>>

\* a step of run() of single-item worker i
SingleStep(i) ==
    /\ i <= Len(singles)
    /\ \/ SingleProgressSeed(i)
       \/ SingleSeedSkip(i)
       \/ SingleSeedCall(i)
       \/ SingleSeedRaise(i)
       \/ SingleProgressGenerate(i)
       \/ SingleGenerateReturn(i)
       \/ SingleGenerateRaise(i)
       \/ SingleSaveReturn(i)
       \/ SingleSaveRaise(i)
       \/ SingleEmitFinished(i)
       \/ SingleEmitError(i)

\* what the text box and the seed box hold when the window is used
MainTexts == {<<>>, <<"H", "i">>, LongText}
MainSeeds == {0, 7}

InitMainGui ==
    /\ \E t \in MainTexts, s \in MainSeeds : gui = InitialMainGui(t, s)
    /\ workers = <<>>
    /\ singles = <<>>
    /\ stopped_at = <<>>

NextMainGui ==
    \/ LoadVcSource(RefPath)
    \/ GenerateTtsRejected
    \/ GenerateTtsBegin
    \/ GenerateTtsLoadFails
    \/ GenerateTtsLoaded
    \/ GenerateTts
    \/ ConvertVoiceBegin
    \/ ConvertVoiceLoadFails
    \/ ConvertVoiceLoaded
    \/ ConvertVoice
    \/ CloseLoadBox
    \/ CloseErrorBox
    \/ \E i \in 1..MaxWorkers :
          \/ MainDeliver(i)
          \/ i <= Len(singles) /\ SingleProgressSeed(i)
          \/ i <= Len(singles) /\ SingleSeedSkip(i)
          \/ i <= Len(singles) /\ SingleSeedCall(i)
          \/ i <= Len(singles) /\ SingleSeedRaise(i)
          \/ i <= Len(singles) /\ SingleProgressGenerate(i)
          \/ i <= Len(singles) /\ SingleGenerateReturn(i)
          \/ i <= Len(singles) /\ SingleGenerateRaise(i)
          \/ i <= Len(singles) /\ SingleSaveReturn(i)
          \/ i <= Len(singles) /\ SingleSaveRaise(i)
          \/ i <= Len(singles) /\ SingleEmitFinished(i)
          \/ i <= Len(singles) /\ SingleEmitError(i)

SpecMainGui == InitMainGui /\ [][NextMainGui]_vars

\* run() goes on wherever it stands, a queued signal is handed to its slot, a
\* load returns or raises, and a message box is closed by the user
SpecMainGuiFair ==
    /\ SpecMainGui
    /\ \A i \in 1..MaxWorkers : WF_vars(SingleStep(i)) /\ WF_vars(MainDeliver(i))
    /\ WF_vars(CloseErrorBox)
    /\ WF_vars(CloseLoadBox)
    /\ WF_vars(GenerateTtsLoaded \/ GenerateTtsLoadFails)
    /\ WF_vars(ConvertVoiceLoaded \/ ConvertVoiceLoadFails)

(***************************************************************************)
(* Observations on a batch worker's signals and calls.                     *)
(***************************************************************************)
PerItemTypes == {"progress", "file_completed", "error"}
TerminalTypes == {"file_completed", "error"}

\* positions of the events of worker w with a type in T emitted by iteration k
EventsOf(w, T, k) == {p \in 1..Len(w.events) : w.events[p].type \in T /\ w.events[p].idx = k}
\* positions of the events of worker w with a type in T
EventsOfType(w, T) == {p \in 1..Len(w.events) : w.events[p].type \in T}
\* positions of the calls op of iteration k
CallsOf(w, op, k) == {p \in 1..Len(w.calls) : w.calls[p].op = op /\ w.calls[p].idx = k}
\* iteration k ran into an exception
Raised(w, k) == \E p \in 1..Len(w.calls) : w.calls[p].idx = k /\ w.calls[p].raised
\* positions in run() between the top-of-loop check of an item and its terminal signal
InFlight == {"progress", "seed", "generate", "save", "completed", "except"}
ItemIndexes(w) == 0..(Len(w.items) - 1)

\* C1: in a batch run of n items with no stop requested, every item gets exactly
\* one terminal signal, file_completed or error and never both, so that the run
\* ends with n terminal signals whatever items raise; an item whose model call or
\* save raised gets error (with the exception's text), any other file_completed,
\* and the items after it are still processed.
C1_OneTerminalPerItem ==
    \A i \in 1..Len(workers) :
        LET w == workers[i] IN
        w.is_running =>
            /\ \A k \in ItemIndexes(w) :
                  /\ Cardinality(EventsOf(w, TerminalTypes, k)) = (IF k < w.idx THEN 1 ELSE 0)
                  /\ k < w.idx =>
                        /\ Raised(w, k) <=> EventsOf(w, {"error"}, k) # {}
                        /\ ~Raised(w, k) <=> EventsOf(w, {"file_completed"}, k) # {}
            /\ w.pc = "done" => Cardinality(EventsOfType(w, TerminalTypes)) = Len(w.items)

\* a run of three items, never stopped, in which the second item alone raised
W1_MiddleItemFailed ==
    \E i \in 1..Len(workers) :
        LET w == workers[i] IN
        /\ w.pc = "done" /\ w.is_running /\ Len(w.items) = 3
        /\ EventsOf(w, {"file_completed"}, 0) # {}
        /\ EventsOf(w, {"error"}, 1) # {}
        /\ EventsOf(w, {"file_completed"}, 2) # {}

\* C2: when stop() comes after the terminal signal of item k (1-based) and before
\* the top-of-loop check of the next item, at most k items are processed, no
\* progress, file_completed or error signal is emitted for a later item, and
\* finished is emitted exactly once.
C2_StopBetweenItems ==
    \A i \in 1..Len(workers) :
        LET w == workers[i]
            s == stopped_at[i]
        IN  s.pc = "loop" =>
                /\ \A p \in EventsOfType(w, PerItemTypes) : w.events[p].idx < s.idx
                /\ Cardinality({c \in 1..Len(w.calls) : w.calls[c].op = "generate"}) <= s.idx
                /\ w.idx = s.idx
                /\ Cardinality(EventsOfType(w, {"finished"})) = (IF w.pc = "done" THEN 1 ELSE 0)

\* a run stopped between its first and its second item, ended
W2_StoppedAfterFirst ==
    \E i \in 1..Len(workers) :
        LET w == workers[i] IN
        /\ stopped_at[i] = [pc |-> "loop", idx |-> 1]
        /\ Len(w.items) >= 2
        /\ w.pc = "done"

\* C3: cancellation is cooperative.  Wherever stop() comes, the item whose check
\* was already passed is run to its own terminal signal before the run ends (its
\* model call is made and not cut short), and no later item is started.
C3_Cooperative ==
    \A i \in 1..Len(workers) :
        LET w == workers[i]
            s == stopped_at[i]
            \* the last iteration whose check came before stop()
            last == IF s.pc \in InFlight THEN s.idx ELSE s.idx - 1
        IN  s # NotStopped =>
                /\ \A p \in EventsOfType(w, PerItemTypes) : w.events[p].idx <= last
                /\ \A c \in 1..Len(w.calls) : w.calls[c].idx <= last
                /\ w.pc \in {"finish", "done"} =>
                      \A k \in 0..last :
                          /\ Cardinality(EventsOf(w, TerminalTypes, k)) = 1
                          /\ CallsOf(w, "generate", k) # {} \/ Raised(w, k)

\* stop() came during the model call of the first item, which completed all the same
W3_StoppedInFlight ==
    \E i \in 1..Len(workers) :
        LET w == workers[i] IN
        /\ stopped_at[i] = [pc |-> "generate", idx |-> 0]
        /\ Len(w.items) >= 2
        /\ w.pc = "done"
        /\ EventsOf(w, {"file_completed"}, 0) # {}

\* C4: the signals of a worker come in item order: the progress signal of an item
\* before its terminal signal, both before any signal of the next item, and
\* finished after everything else.
C4_EventOrder ==
    \A i \in 1..Len(workers) :
        LET w == workers[i]
            ev == w.events
        IN  /\ \A p, q \in 1..Len(ev) :
                  (p < q /\ ev[p].type \in PerItemTypes /\ ev[q].type \in PerItemTypes) =>
                      \/ ev[p].idx < ev[q].idx
                      \/ ev[p].idx = ev[q].idx /\ ev[p].type = "progress"
                                               /\ ev[q].type \in TerminalTypes
            /\ \A q \in EventsOfType(w, TerminalTypes) :
                  \E p \in 1..(q - 1) : ev[p].type = "progress" /\ ev[p].idx = ev[q].idx
            /\ \A p \in EventsOfType(w, {"progress"}) : ev[p].current = ev[p].idx + 1
            /\ \A p \in EventsOfType(w, {"finished"}) : p = Len(ev) /\ w.pc = "done"

\* a finished run of two items, both with their progress and terminal signals
W4_TwoItemsThenFinished ==
    \E i \in 1..Len(workers) :
        LET w == workers[i] IN
        /\ Len(w.events) = 5
        /\ w.events[1].type = "progress" /\ w.events[3].type = "progress"
        /\ w.events[5].type = "finished"

\* run() of worker w has returned after one finished signal without payload
Finished(w) ==
    /\ w.pc = "done"
    /\ Cardinality(EventsOfType(w, {"finished"})) = 1
    /\ \A p \in EventsOfType(w, {"finished"}) :
          w.events[p].payload = None /\ w.events[p].item = None

\* C5: a started batch worker eventually emits finished, exactly once and without
\* payload, whether the items are exhausted or a stop was requested, given that
\* every model call and every save returns or raises.
C5_EventuallyFinished ==
    /\ <>[](\A i \in 1..Len(workers) : Finished(workers[i]))
    /\ [](\A i \in 1..Len(workers) : Cardinality(EventsOfType(workers[i], {"finished"})) <= 1)

\* a run ended by a stop request with items left
W5_FinishedByStop ==
    \E i \in 1..Len(workers) :
        LET w == workers[i] IN
        Finished(w) /\ ~w.is_running /\ w.idx < Len(w.items)

\* C8: in a synthesis batch with template seed s, item i (0-based) is seeded
\* explicitly iff s # 0, then with s + i and before its model call; with s = 0
\* no seeding call is made.
C8_SeedPerItem ==
    \A i \in 1..Len(workers) :
        LET w == workers[i] IN
        w.kind = "tts" =>
            /\ w.params.seed = 0 => \A c \in 1..Len(w.calls) : w.calls[c].op # "set_seed"
            /\ w.params.seed # 0 =>
                  /\ \A c \in 1..Len(w.calls) :
                        w.calls[c].op = "set_seed" => w.calls[c].arg = w.params.seed + w.calls[c].idx
                  /\ \A k \in ItemIndexes(w) :
                        /\ Cardinality(CallsOf(w, "set_seed", k)) <= 1
                        /\ \A g \in CallsOf(w, "generate", k) :
                              \E c \in CallsOf(w, "set_seed", k) : c < g
                        /\ (k < w.idx \/ (k = w.idx /\ w.pc \in {"generate", "save", "completed", "except"}))
                              => CallsOf(w, "set_seed", k) # {}

\* the third item of a batch seeded 7 has been seeded and generated
W8_ThirdItemSeeded ==
    \E i \in 1..Len(workers) :
        LET w == workers[i] IN
        /\ w.kind = "tts" /\ w.params.seed = 7
        /\ \E c \in CallsOf(w, "set_seed", 2) : w.calls[c].arg = 9
        /\ CallsOf(w, "generate", 2) # {}

(***************************************************************************)
(* File names, read back from the paths handed to ta.save.                 *)
(***************************************************************************)
\* path names the file leaf directly inside the directory dir
InDirectory(path, dir, leaf) ==
    /\ leaf # <<>>
    /\ \A j \in 1..Len(leaf) : leaf[j] # Sep
    /\ path = (IF dir[Len(dir)] = Sep THEN dir ELSE dir \o <<Sep>>) \o leaf

\* n in 1..999 written with three digits
ThreeDigits(n) == <<DigitChar(n \div 100), DigitChar((n \div 10) % 10), DigitChar(n % 10)>>

\* the name the synthesis output of item k (0-based) of worker w is to have
ExpectedTTSName(w, k) ==
    IF Len(w.items) = 1 THEN w.base_filename \o DotWav
    ELSE w.base_filename \o <<"_">> \o ThreeDigits(k + 1) \o DotWav

\* the stem of a file path: its last component up to its last inner dot
ExpectedStem(p) ==
    LET seps == {j \in 1..Len(p) : p[j] = Sep}
        from == IF seps = {} THEN 1 ELSE 1 + CHOOSE j \in seps : \A m \in seps : m <= j
        leaf == SubSeq(p, from, Len(p))
        dots == {j \in 2..(Len(leaf) - 1) : leaf[j] = Dot}
    IN  IF dots = {} THEN leaf
        ELSE SubSeq(leaf, 1, (CHOOSE j \in dots : \A m \in dots : m <= j) - 1)

\* C9: the synthesis output of item i (0-based) of a batch of n items with base
\* filename f is the file f.wav (n = 1) or f_{i+1:03d}.wav (n > 1) inside the
\* output directory given to the worker.
C9_TTSOutputName ==
    \A i \in 1..Len(workers) :
        LET w == workers[i] IN
        w.kind = "tts" =>
            \A c \in 1..Len(w.calls) :
                w.calls[c].op = "save" =>
                    InDirectory(w.calls[c].arg, w.output_dir, ExpectedTTSName(w, w.calls[c].idx))

\* C10: the conversion output of an input file with stem `name` is the file
\* name_converted.wav inside the output directory, at whatever position of a
\* batch of whatever size the input stands; file_completed carries that path.
C10_VCOutputName ==
    \A i \in 1..Len(workers) :
        LET w == workers[i] IN
        w.kind = "vc" =>
            /\ \A c \in 1..Len(w.calls) :
                  w.calls[c].op = "save" =>
                      InDirectory(w.calls[c].arg, w.output_dir,
                                  ExpectedStem(w.items[w.calls[c].idx + 1]) \o ConvertedSuffix)
            /\ \A p \in EventsOfType(w, {"file_completed"}) :
                  /\ w.events[p].item = w.items[w.events[p].idx + 1]
                  /\ InDirectory(w.events[p].payload, w.output_dir,
                                 ExpectedStem(w.events[p].item) \o ConvertedSuffix)

\* /d/a.b.mp3 converted as the third file of a batch
W10_ThirdFileConverted ==
    \E i \in 1..Len(workers) :
        LET w == workers[i] IN
        /\ w.kind = "vc" /\ Len(w.items) = 3
        /\ w.items[3] = <<"/", "d", "/", "a", ".", "b", ".", "m", "p", "3">>
        /\ \E p \in EventsOfType(w, {"file_completed"}) :
              /\ w.events[p].idx = 2
              /\ w.events[p].payload = OutDir \o <<"/", "a", ".", "b">> \o ConvertedSuffix

(***************************************************************************)
(* Single-item workers.                                                    *)
(***************************************************************************)
SingleTerminals(w) == {p \in 1..Len(w.events) : w.events[p].type \in {"finished", "error"}}
SingleRaised(w) == \E c \in 1..Len(w.calls) : w.calls[c].raised

\* C7: a single-item worker emits exactly one terminal signal per run, finished
\* (with the output path) or error (with the exception's text) and never both:
\* an exception of the seeding, of the model call or of the save gives error and
\* run() still ends normally; without exception finished is emitted.
C7_SingleTerminal ==
    \A i \in 1..Len(singles) :
        LET w == singles[i] IN
        /\ Cardinality(SingleTerminals(w)) = (IF w.pc = "done" THEN 1 ELSE 0)
        /\ \A p \in SingleTerminals(w) :
              /\ p = Len(w.events)
              /\ SingleRaised(w) <=> w.events[p].type = "error"
              /\ w.events[p].type = "error" => w.events[p].payload = w.err
              /\ w.events[p].type = "finished" =>
                    /\ w.events[p].payload = (IF w.kind = "tts" THEN TempTTSOutput ELSE TempVCOutput)
                    /\ \E c \in 1..Len(w.calls) :
                          w.calls[c].op = "save" /\ w.calls[c].arg = w.events[p].payload
        /\ SingleRaised(w) => w.pc \in {"except", "done"}

\* a synthesis run whose save raised, ended with error
W7_SaveFailed ==
    \E i \in 1..Len(singles) :
        LET w == singles[i] IN
        /\ w.kind = "tts" /\ w.pc = "done"
        /\ \E c \in 1..Len(w.calls) : w.calls[c].op = "save" /\ w.calls[c].raised
        /\ w.events[Len(w.events)] = SingleEvent("error", SaveError)

(***************************************************************************)
(* The control layer and its workers.                                      *)
(***************************************************************************)
\* the batch workers that were started and have not emitted finished yet
ActiveWorkers == {i \in 1..Len(workers) : workers[i].pc # "done"}

\* C6: at most one background worker is active at any time: no worker is
\* launched while a worker launched before has not emitted its terminal signal.
C6_AtMostOneActiveWorker == Cardinality(ActiveWorkers) <= 1

(***************************************************************************)
(* The audio recorder.                                                     *)
(***************************************************************************)
\* the input streams that were opened and not closed
OpenStreams == {s \in 1..Len(gui.audio.streams) : gui.audio.streams[s].state # "closed"}

\* C11: after any sequence of presses of the Record buttons there are never two
\* open input streams, every open stream is the one the recorder holds (so that
\* the next stop closes it), and while a started session lasts exactly one is open.
C11_OneOpenStream ==
    /\ Cardinality(OpenStreams) <= 1
    /\ \A s \in OpenStreams : s = gui.recorder.stream
    /\ (gui.recorder.recording /\ gui.audio.last.op = "start" /\ ~gui.audio.last.raised)
          => Cardinality(OpenStreams) = 1

\* C12: stop_recording on a session that received no block (whether or not start
\* was ever called) returns None and does not raise.
C12_StopWithoutFrames ==
    (gui.audio.last.op = "stop" /\ gui.audio.last.session = <<>>)
        => (~gui.audio.last.raised /\ gui.audio.last.result = Absent)

\* C13: start_recording without an input device fails silently: no exception
\* reaches the caller, no stream is opened, nothing is buffered and the recorder
\* is left not recording.
C13_StartFailsSilently ==
    (gui.audio.last.op = "start" /\ gui.audio.last.flag = "no device")
        => /\ ~gui.audio.last.raised
           /\ ~gui.recorder.recording
           /\ gui.recorder.q = <<>>

\* the last call was stop_recording (alone or within save_recording) and no
\* call was made since it returned
Stopped == gui.audio.call = NoCall /\ gui.audio.last.op \in {"stop", "save"}

\* C14: stop_recording halts capture, drains the queue and returns the blocks of
\* the session joined in the order of their callbacks, None when there are none:
\* once it has returned the stream is closed, the queue is empty and stays so,
\* and the result is the join of all blocks enqueued since the session's start.
C14_StopReturnsSession ==
    Stopped =>
        /\ ~gui.recorder.recording
        /\ gui.recorder.stream # 0 => gui.audio.streams[gui.recorder.stream].state = "closed"
        /\ gui.recorder.q = <<>>
        /\ gui.audio.last.result = StopResult(gui.audio.last.session)

LoadRaises == Len(gui'.pending) < Len(gui.pending) /\ gui'.loads = gui.loads

C17_LoadedOnce ==
    /\ gui.loads.tts <= 1 /\ gui.loads.vc <= 1
    /\ (gui.loads.tts = 0) <=> (gui.tts_model = None)
    /\ (gui.loads.vc = 0) <=> (gui.vc_model = None)
    /\ \A i \in 1..Len(workers) :
          workers[i].model = (IF workers[i].kind = "tts" THEN gui.tts_model ELSE gui.vc_model)
             /\ workers[i].model # None

(***************************************************************************)
(* Job parameters.                                                         *)
(***************************************************************************)
\* C20: the parameters handed to a synthesis worker have exaggeration in
\* [0.25, 2.0], cfg_weight in [0.0, 1.0], temperature in [0.05, 5.0] (here in
\* hundredths, the unit of the sliders) and a seed that is a natural number,
\* wherever the controls stand.
C20_ParamsInRange ==
    \A i \in 1..Len(workers) :
        LET q == workers[i].params IN
        workers[i].kind = "tts" =>
            /\ 25 <= q.exaggeration /\ q.exaggeration <= 200
            /\ 0 <= q.cfg_weight /\ q.cfg_weight <= 100
            /\ 5 <= q.temperature /\ q.temperature <= 500
            /\ q.seed \in Nat

\* a worker launched with every control at an end of its range
W20_ExtremeParams ==
    \E i \in 1..Len(workers) :
        LET q == workers[i].params IN
        /\ q.exaggeration = 200 /\ q.cfg_weight = 0
        /\ q.temperature = 5 /\ q.seed = 999999

(***************************************************************************)
(* The results tables of the bulk window.                                  *)
(***************************************************************************)
\* the per-item signals of worker i that the control thread has handled
HandledItems(i) ==
    {k \in 1..gui.delivered[i] : workers[i].events[k].type \in TerminalTypes}

\* C19: a results table holds the rows of the worker launched last for it and of
\* no other: one row per per-item signal of that worker handled so far, hence
\* never more rows than the launched batch has items.
C19_TableOfOneInvocation ==
    /\ gui.tts_worker # 0 =>
          /\ Len(gui.tts_results_table) = Cardinality(HandledItems(gui.tts_worker))
          /\ Len(gui.tts_results_table) <= Len(workers[gui.tts_worker].items)
    /\ gui.vc_worker # 0 =>
          /\ Len(gui.vc_results_table) = Cardinality(HandledItems(gui.vc_worker))
          /\ Len(gui.vc_results_table) <= Len(workers[gui.vc_worker].items)

(***************************************************************************)
(* The single-item window after a job.                                     *)
(***************************************************************************)
\* the terminal signal of single-item worker i was emitted and its slot has returned
TerminalHandled(i) ==
    /\ i <= Len(singles)
    /\ singles[i].pc = "done"
    /\ gui.delivered[i] = Len(singles[i].events)
    /\ \A k \in 1..Len(gui.pending) :
          ~(gui.pending[k].at = "error_box" /\ gui.pending[k].id = i)

\* the launch button of the operation is enabled and its progress bar hidden
Usable(kind) ==
    IF kind = "tts" THEN gui.tts_generate_btn /\ ~gui.tts_progress
    ELSE gui.vc_convert_btn /\ ~gui.vc_progress

\* C18: when the slot of a single-item worker's terminal signal (finished or
\* error) returns, the launch button of that operation is enabled and its
\* progress bar hidden; and every worker launched is eventually followed by a
\* state in which its terminal signal is handled, the button is enabled, the
\* bar hidden and no message box is open, so that a new job can be launched.
C18_UsableAfterTerminal ==
    /\ [][\A i \in 1..MaxWorkers :
             (~TerminalHandled(i) /\ TerminalHandled(i)') => Usable(singles[i].kind)']_vars
    /\ \A i \in 1..MaxWorkers :
          (i <= Len(singles)) ~>
              (TerminalHandled(i) /\ Usable(singles[i].kind) /\ Interactive)

\* a synthesis job failed, its error box was closed, and a second job was
\* launched after it and has finished: the window is ready for a third
W18_RetriedAfterFailure ==
    /\ Len(singles) = 2
    /\ singles[1].kind = "tts" /\ singles[2].kind = "tts"
    /\ TerminalHandled(1) /\ TerminalHandled(2)
    /\ singles[1].events[Len(singles[1].events)].type = "error"
    /\ singles[2].events[Len(singles[2].events)].type = "finished"
    /\ gui.tts_output_path = TempTTSOutput
    /\ Usable("tts") /\ Interactive

(***************************************************************************)
(* The order of a single-item worker's steps.                              *)
(***************************************************************************)
\* the progress texts of a run, in the order of the code
SingleStages(w) == IF w.kind = "tts" THEN <<MsgSettingSeed, MsgGenerating>> ELSE <<MsgConverting>>
\* the operations a run without exception performs on its collaborators, in order
SingleOps(w) ==
    (IF w.kind = "tts" /\ w.seed # 0 THEN <<"set_seed">> ELSE <<>>) \o <<"generate", "save">>
\* the position of an operation among the calls made so far, 0 when not made
CallAt(w, op) ==
    IF \E c \in 1..Len(w.calls) : w.calls[c].op = op
    THEN CHOOSE c \in 1..Len(w.calls) : w.calls[c].op = op
    ELSE 0

\* C21: the steps of a single-item run come in the order of the stage list:
\* progress "Setting random seed...", the seeding call exactly when the seed is
\* non-zero, progress "Generating audio..." (the conversion worker: progress
\* "Processing voice conversion..."), the model call, the save to the fixed
\* temporary path, finished with that path; finished never precedes the save.
C21_SingleStepOrder ==
    \A i \in 1..Len(singles) :
        LET w == singles[i]
            stages == SingleStages(w)
            ops == SingleOps(w)
            shown == {p \in 1..Len(w.events) : w.events[p].type = "progress"}
        IN  \* the progress signals are the first stages, in order, before any terminal
            /\ Cardinality(shown) <= Len(stages)
            /\ \A p \in shown : p <= Len(stages) /\ w.events[p] = SingleEvent("progress", stages[p])
            \* the calls are the first operations, in order; only the last may have raised
            /\ Len(w.calls) <= Len(ops)
            /\ \A c \in 1..Len(w.calls) :
                  /\ w.calls[c].op = ops[c]
                  /\ w.calls[c].raised => c = Len(w.calls)
            \* seeding comes after the first progress and before the second
            /\ CallAt(w, "set_seed") # 0 => Cardinality(shown) >= 1
            /\ (w.kind = "tts" /\ Cardinality(shown) = 2) =>
                  (CallAt(w, "set_seed") # 0 <=> w.seed # 0)
            \* the model call comes after the last progress
            /\ CallAt(w, "generate") # 0 => Cardinality(shown) = Len(stages)
            \* finished comes after a save that returned, with the path saved to
            /\ \A p \in 1..Len(w.events) :
                  w.events[p].type = "finished" =>
                      /\ p = Len(stages) + 1
                      /\ Len(w.calls) = Len(ops)
                      /\ ~w.calls[Len(ops)].raised
                      /\ w.calls[Len(ops)].arg = SingleOutputPath(w)
                      /\ w.events[p].payload = SingleOutputPath(w)

\* a seeded synthesis run that went through every step
W21_SeededRunFinished ==
    \E i \in 1..Len(singles) :
        LET w == singles[i] IN
        /\ w.kind = "tts" /\ w.seed = 7 /\ w.pc = "done"
        /\ Len(w.calls) = 3 /\ Len(w.events) = 3
        /\ w.events[3] = SingleEvent("finished", TempTTSOutput)

(***************************************************************************)
(* The inputs of a batch worker.                                           *)
(***************************************************************************)
\* what a batch worker was constructed with
Inputs(w) == <<w.items, w.output_dir, w.base_filename, w.params, w.target_voice_path>>
\* what a launch handler that completes in this state hands to its worker; a
\* handler that resumes after processEvents() has built its work list before
Snapshot(kind, resumed) ==
    IF kind = "tts"
    THEN <<IF resumed THEN gui.pending[Len(gui.pending)].items ELSE TextsToGenerate(gui),
           gui.output_dir, BaseFilename(gui), GetParams(gui), None>>
    ELSE <<IF resumed THEN gui.pending[Len(gui.pending)].items ELSE gui.vc_file_list,
           gui.output_dir, None, None, gui.vc_target_path>>

\* C22: a batch worker's inputs are the values the control thread held when it
\* launched the worker (work list, output directory, base file name, parameter
\* set, reference or target path), and no step, of the worker or of the
\* window, changes them afterwards.
C22_InputsAreSnapshot ==
    [][/\ Len(workers') >= Len(workers)
       /\ \A i \in 1..Len(workers) : Inputs(workers'[i]) = Inputs(workers[i])
       /\ Len(workers') > Len(workers) =>
             Inputs(workers'[Len(workers')]) =
                Snapshot(workers'[Len(workers')].kind, Len(gui'.pending) < Len(gui.pending))]_vars

\* the first worker has saved its file into the directory and with the name it
\* was launched with, after the directory and the text were changed
W22_EditedWhileRunning ==
    /\ workers # <<>>
    /\ workers[1].kind = "tts" /\ workers[1].pc = "done"
    /\ gui.output_dir = RootDir /\ gui.tts_text_input = <<Space>>
    /\ workers[1].output_dir = OutDir
    /\ workers[1].items = <<<<"H", "i">>>>
    /\ \E p \in 1..Len(workers[1].events) :
          /\ workers[1].events[p].type = "file_completed"
          /\ workers[1].events[p].payload = PathJoin(OutDir, DefaultBaseName \o DotWav)

(***************************************************************************)
(* The launch buttons of the bulk window.                                  *)
(***************************************************************************)
\* the finished signal of batch worker i was emitted and its slot has run
FinishedHandled(i) ==
    /\ workers[i].pc = "done"
    /\ gui.delivered[i] = Len(workers[i].events)

\* C23: from the start of a batch worker until its finished signal is handled
\* the launch button of its operation is disabled, whatever else the user
\* does, and no second worker of that operation is started meanwhile.
C23_LaunchButtonGuards ==
    /\ \A i \in 1..Len(workers) :
          ~FinishedHandled(i) =>
              ~(IF workers[i].kind = "tts" THEN gui.tts_generate_btn ELSE gui.vc_convert_btn)
    /\ \A i, j \in 1..Len(workers) :
          (i < j /\ workers[i].kind = workers[j].kind /\ ~FinishedHandled(i)) =>
              FinishedHandled(j)

(***************************************************************************)
(* The output paths of one batch.                                          *)
(***************************************************************************)
\* the positions among the calls of w of the saves that returned
Saves(w) == {c \in 1..Len(w.calls) : w.calls[c].op = "save" /\ ~w.calls[c].raised}

\* C24: within one conversion batch, distinct input files are saved to distinct
\* output paths.
C24_VCOutputsDistinct ==
    \A i \in 1..Len(workers) :
        LET w == workers[i] IN
        w.kind = "vc" =>
            \A c, d \in Saves(w) :
                w.items[w.calls[c].idx + 1] # w.items[w.calls[d].idx + 1]
                    => w.calls[c].arg # w.calls[d].arg

\* C25: within one synthesis batch each item is saved to a path that no earlier
\* item of the batch was saved to, also beyond the 999th item: the output
\* paths of a batch are pairwise distinct.
C25_TTSOutputsDistinct ==
    \A i \in 1..Len(workers) :
        LET w == workers[i]
            n == Len(w.calls)
        IN  (w.kind = "tts" /\ n > 0 /\ w.calls[n].op = "save") =>
                \A d \in 1..(n - 1) :
                    w.calls[d].op = "save" => w.calls[d].arg # w.calls[n].arg

\* the last text of the long batch was saved under its four-digit number
W25_ItemBeyond999 ==
    /\ workers # <<>>
    /\ Len(workers[1].items) = LongBatch
    /\ workers[1].pc = "done"
    /\ \E p \in 1..Len(workers[1].events) :
          /\ workers[1].events[p].type = "file_completed"
          /\ workers[1].events[p].idx = 1000
          /\ workers[1].events[p].payload
                = PathJoin(OutDir, BaseOut \o <<"_", "1", "0", "0", "1">> \o DotWav)

(***************************************************************************)
(* The work list of a synthesis launch.                                    *)
(***************************************************************************)
\* C26: a synthesis worker is never started with an empty work list nor with
\* an item that is empty or only whitespace, in either input mode.
C26_NoBlankItem ==
    \A i \in 1..Len(workers) :
        workers[i].kind = "tts" =>
            /\ workers[i].items # <<>>
            /\ \A k \in 1..Len(workers[i].items) : Strip(workers[i].items[k]) # <<>>

(***************************************************************************)
(* What a stop of the recorder returns.                                    *)
(***************************************************************************)
\* the rows of an array returned by stop_recording
Rows(result) == {result.data[k] : k \in 1..Len(result.data)}

\* C27: when stop_recording returns (alone or within save_recording), its
\* result is made of exactly the blocks enqueued since the most recent
\* start_recording, and of no block that the call before it returned.
C27_StopReturnsOwnFrames ==
    [][(gui.audio.call # NoCall /\ gui'.audio.call = NoCall) =>
          LET l == gui'.audio.last IN
          /\ l.result = StopResult(gui.audio.session)
          /\ gui.audio.last.op \in {"stop", "save"} =>
                Rows(l.result) \cap Rows(gui.audio.last.result) = {}]_vars

(***************************************************************************)
(* The Stop buttons of the bulk window.                                    *)
(***************************************************************************)
\* the batch workers of a kind whose finished signal is not handled yet
Unfinished(kind) == {i \in 1..Len(workers) : workers[i].kind = kind /\ ~FinishedHandled(i)}

\* C28: a tab's Stop button is enabled exactly while a worker of the tab is
\* started and its finished signal not handled, that worker is the one a
\* click on Stop reaches, and once the signal is handled the launch button is
\* enabled.
C28_StopButtonFollowsWorker ==
    /\ gui.tts_stop_btn <=> Unfinished("tts") # {}
    /\ gui.vc_stop_btn <=> Unfinished("vc") # {}
    /\ \A i \in Unfinished("tts") : gui.tts_worker = i
    /\ \A i \in Unfinished("vc") : gui.vc_worker = i
    /\ (Unfinished("tts") = {} /\ gui.pending = <<>>) => gui.tts_generate_btn
    /\ (Unfinished("vc") = {} /\ gui.pending = <<>> /\ gui.vc_file_list # <<>>)
          => gui.vc_convert_btn

(***************************************************************************)
(* The file list of the conversion tab.                                    *)
(***************************************************************************)
\* C29: after any sequence of adds and drops the conversion list holds no path
\* twice; an add or a drop keeps the entries there are, in their order, and
\* the file count shown after it is the length of the list.
C29_NoDuplicateFiles ==
    /\ [](\A j, k \in 1..Len(gui.vc_file_list) :
             j # k => gui.vc_file_list[j] # gui.vc_file_list[k])
    /\ [][gui'.vc_file_list # <<>> =>
             /\ Take(gui'.vc_file_list, Len(gui.vc_file_list)) = gui.vc_file_list
             /\ gui'.vc_file_count_label = Len(gui'.vc_file_list)]_vars

\* two paths differing in case only were added or dropped, in one group or
\* in two: the list holds two entries and the count shows two
W29_GroupWithRepeat ==
    /\ gui.vc_file_list = <<<<"/", "d", "/", "A", ".", "W", "A", "V">>,
                            <<"/", "d", "/", "a", ".", "w", "a", "v">>>>
    /\ gui.vc_file_count_label = 2

====
